---- MODULE Spec2Model ----
(***************************************************************************)
(* G2Mark: the raster-to-G-code pipeline of the laser engraving tool.      *)
(*                                                                         *)
(*   Spec      one generation request after another on a fixed raster:     *)
(*             SketchingStage.generate_gcode, which calls the scanline     *)
(*             extractor, the assembler and the preview window, plus a     *)
(*             direct call of the assembler.                               *)
(*   SpecProfile  the engrave workflow with every power a profile can      *)
(*             hold, on one raster.                                        *)
(*   SpecSend  GCodeGenerator._g2mark_send_gcode streaming a command list  *)
(*             to the serial port, with the Cancel button.                 *)
(*   SpecScene the drawing scene of SketchingStage: objects, the undo      *)
(*             stack, the origin marker and the layers, and generate_gcode *)
(*             reading the origin from the scene.                          *)
(*   SpecCanvas  the scene with the items of its canvas: the redraws, the  *)
(*             preview of the origin marker and the export of the canvas.  *)
(*   SpecEngrave  ImageProcessor.generate_engraving_gcode on a matrix.     *)
(*   SpecGrbl  GRBLController: connect, the status-monitoring threads and  *)
(*             the worker thread of send_gcode_file on one serial port.    *)
(*   SpecExport  the export of the work area to the temporary image, with  *)
(*             the colour flip, and the thresholding of an image.          *)
(*                                                                         *)
(* Lengths are held in thousandths of a millimetre: 0.072 mm is 72.  A     *)
(* G-code line is held as its sequence of words (letter, number); its text *)
(* is RenderLine of it.                                                    *)
(***************************************************************************)
EXTENDS Integers, Sequences, FiniteSets, TLC

VARIABLES
    binary_matrix,          \* the thresholded raster of the exported image
    origin_pixels,          \* the origin in pixels, NoOrigin when none is placed
    laser_power,            \* GCodeGenerator.laser_power
    travel_speed,           \* GCodeGenerator.travel_speed
    instructions,           \* generate_gcode's local: the extractor's result
    gcode_commands,         \* generate_gcode's local: the assembler's result
    current_gcode_commands, \* GCodeGenerator._current_gcode_commands
    dialog,                 \* the message box the last request showed
    raised,                 \* the exception the last request let escape
    last_op,                \* the operation that ran last
    profile_settings        \* the last request's (power_percent, speed_mmmin),
                            \* NoSettings when it gave none

pipeVars == <<binary_matrix, origin_pixels, laser_power, travel_speed,
              instructions, gcode_commands, current_gcode_commands,
              dialog, raised, last_op, profile_settings>>

VARIABLES
    pc,                \* position in _g2mark_send_gcode
    i,                 \* index of the loop over the commands
    cancel_requested,  \* the BooleanVar the Cancel button sets
    ser_written,       \* everything written to the serial port, in order
    ser_open,          \* the port is open
    status_label,      \* text of the status label
    messagebox         \* the message box shown last

sendVars == <<pc, i, cancel_requested, ser_written, ser_open,
              status_label, messagebox>>

VARIABLES
    drawing_objects,   \* SketchingStage.drawing_objects
    undo_stack,        \* SketchingStage.undo_stack
    object_counter,    \* SketchingStage.object_counter
    layers,            \* SketchingLayers.layers, as the list of the layers' ids
    active_layer_id,   \* SketchingLayers.active_layer_id
    layer_counter,     \* SketchingLayers.layer_counter
    origin_mm          \* OriginTool.origin_x_mm, origin_y_mm

sceneVars == <<drawing_objects, undo_stack, object_counter, layers,
               active_layer_id, layer_counter, origin_mm>>

VARIABLES
    samples,           \* the rendered work area, a matrix of grey levels
    flip_colors,       \* SketchingStage.flip_colors
    export_method,     \* the export that wrote the temporary image last
    export_flipped,    \* whether that export applied the colour flip
    export_image,      \* the temporary image, a matrix of grey levels
    grayscale_matrix,  \* the grey levels the last thresholding read
    threshold_source,  \* the function that thresholded last
    threshold_used,    \* the threshold it compared with
    thresholded        \* the binary matrix it produced

exportVars == <<samples, flip_colors, export_method, export_flipped,
                export_image, grayscale_matrix, threshold_source,
                threshold_used, thresholded>>

VARIABLES
    gcode_lines        \* the list ImageProcessor.generate_engraving_gcode returned

engraveVars == <<gcode_lines>>

VARIABLES
    is_connected,       \* GRBLController.is_connected
    serial_connection,  \* GRBLController.serial_connection: "None", "open", "closed"
    grbl_written,       \* what was written on the current serial connection
    answered,           \* how many of these writes the controller board answered
    input_buffer,       \* the response lines waiting in the serial input buffer
    connect_result,     \* what the last connect() returned, "none" before it
    monitor_pc,         \* position of each status-monitoring thread
    send_file_pc,       \* position of the send_file worker thread
    send_file_i,        \* index of its loop over the lines
    grbl_status,        \* GRBLController.grbl_status
    polls,              \* how many status queries were written
    read_log            \* every readline(): <<the thread that read, the line>>

VARIABLES
    canvas_items,       \* the items of the Tk canvas that depict objects
    exported            \* what the last export of the work area rendered

canvasVars == <<canvas_items, exported>>

grblVars == <<is_connected, serial_connection, grbl_written, answered,
              input_buffer, connect_result, monitor_pc, send_file_pc,
              send_file_i, grbl_status, polls, read_log>>

vars == <<pipeVars, sendVars, sceneVars, exportVars, engraveVars, grblVars, canvasVars>>

-----------------------------------------------------------------------------
(* Bounds of the model *)

MaxCols == 2
MaxRows == 2
MaxStreamRuns == 2
MaxOperations == 4
MaxLayers == 2
MaxSampleCols == 2
MaxMonitors == 2
MaxPolls == 2

(* Program constants *)

PixelSizeMicron == 72
DefaultLaserPower == 255
DefaultTravelSpeed == 1000
MaxIntensity == 255
ExtractorThreshold == 128
DefaultThreshold == 128
MinProfilePower == 1
MaxProfilePower == 100
MaxProfileSpeed == 6000

NoOrigin == <<>>
NoSettings == <<>>

-----------------------------------------------------------------------------
(* Rasters *)

Width(m) == IF Len(m) = 0 THEN 0 ELSE Len(m[1])
Height(m) == Len(m)

(* the rasters and rows of the worked examples, and a raster of two rows
   with two runs in a row *)
ScenarioMatrix == << <<1, 1, 0, 0>>, <<0, 1, 1, 1>> >>
ScenarioRows == { <<0, 1, 1, 0, 1, 0, 0, 1, 1, 1>>, <<0, 0, 1, 1, 1>> }
TwoRunMatrix == << <<1, 0, 1>>, <<0, 1, 0>> >>

(* the rasters without a cell: no row, and rows of no column *)
EmptyMatrices == { <<>>, << <<>> >>, << <<>>, <<>> >> }

(* every raster of up to MaxRows rows and MaxCols columns, the examples and
   the rasters without a cell *)
Matrices ==
    UNION { [1..h -> [1..w -> {0, 1}]] : w \in 1..MaxCols, h \in 1..MaxRows }
      \cup {ScenarioMatrix, TwoRunMatrix} \cup { <<r>> : r \in ScenarioRows }
      \cup EmptyMatrices

(* no origin, or an origin on a pixel of the raster; (0, 0) for a raster
   without a cell *)
OriginsOf(m) ==
    {NoOrigin} \cup
    { <<ox, oy>> : ox \in 0..(IF Width(m) > 0 THEN Width(m) - 1 ELSE 0),
                   oy \in 0..(IF Height(m) > 0 THEN Height(m) - 1 ELSE 0) }

Profiles == { <<50, 3000>> }

-----------------------------------------------------------------------------
(* GCodeGenerator.generate_instructions_from_image, the scan of the matrix *)

Instruction(line_start, line_end, row_idx, power, speed) ==
    << <<line_start, row_idx>>, <<line_end + 1, row_idx>>, power, speed >>

(* a mutant of LineEndAtWhite: the end taken one pixel early *)
LineEndAtWhiteEarly(col_idx) == col_idx - 2

LineEndAtWhite(col_idx) == col_idx - 1

LineEndAtRowEnd(row) == Len(row) - 1

(* a mutant of CloseAtRowEnd: the run open at the end of the row is dropped *)
CloseAtRowEndDropped(in_line, line_start, row, row_idx, row_instructions, power, speed) ==
    row_instructions

CloseAtRowEnd(in_line, line_start, row, row_idx, row_instructions, power, speed) ==
    IF in_line
    THEN Append(row_instructions,
                Instruction(line_start, LineEndAtRowEnd(row), row_idx, power, speed))
    ELSE row_instructions

RECURSIVE ScanCols(_, _, _, _, _, _, _, _)
ScanCols(row, row_idx, col_idx, in_line, line_start, row_instructions, power, speed) ==
    IF col_idx >= Len(row)
    THEN CloseAtRowEnd(in_line, line_start, row, row_idx, row_instructions, power, speed)
    ELSE IF row[col_idx + 1] = 1
         THEN IF ~in_line
              THEN ScanCols(row, row_idx, col_idx + 1, TRUE, col_idx,
                            row_instructions, power, speed)
              ELSE ScanCols(row, row_idx, col_idx + 1, in_line, line_start,
                            row_instructions, power, speed)
         ELSE IF in_line
              THEN ScanCols(row, row_idx, col_idx + 1, FALSE, line_start,
                            Append(row_instructions,
                                   Instruction(line_start, LineEndAtWhite(col_idx),
                                               row_idx, power, speed)),
                            power, speed)
              ELSE ScanCols(row, row_idx, col_idx + 1, in_line, line_start,
                            row_instructions, power, speed)

ScanRow(row, row_idx, power, speed) ==
    ScanCols(row, row_idx, 0, FALSE, 0, <<>>, power, speed)

(* a mutant of AddRow: a row without a run is kept as an empty row *)
AddRowAlways(all_instructions, row_instructions) ==
    Append(all_instructions, row_instructions)

AddRow(all_instructions, row_instructions) ==
    IF row_instructions # <<>>
    THEN Append(all_instructions, row_instructions)
    ELSE all_instructions

RECURSIVE ScanRows(_, _, _, _, _)
ScanRows(matrix, row_idx, all_instructions, power, speed) ==
    IF row_idx >= Len(matrix)
    THEN all_instructions
    ELSE ScanRows(matrix, row_idx + 1,
                  AddRow(all_instructions,
                         ScanRow(matrix[row_idx + 1], row_idx, power, speed)),
                  power, speed)

generate_instructions_from_image(matrix, power, speed) ==
    ScanRows(matrix, 0, <<>>, power, speed)

-----------------------------------------------------------------------------
(* GCodeGenerator.generate_instructions_from_image_optimized_v1: its own scan
   of the matrix; optimization_dict and instruction_id are set and not read *)

(* a mutant of OptimizedRowEnd: the run open at the end of the row is dropped *)
OptimizedRowEndDropped(in_line, line_start, row, row_idx, row_instructions, power, speed) ==
    row_instructions

OptimizedRowEnd(in_line, line_start, row, row_idx, row_instructions, power, speed) ==
    IF in_line
    THEN LET line_end == Len(row) - 1
         IN  Append(row_instructions,
                    << <<line_start, row_idx>>, <<line_end + 1, row_idx>>, power, speed >>)
    ELSE row_instructions

RECURSIVE OptimizedScanCols(_, _, _, _, _, _, _, _)
OptimizedScanCols(row, row_idx, col_idx, in_line, line_start, row_instructions, power, speed) ==
    IF col_idx >= Len(row)
    THEN OptimizedRowEnd(in_line, line_start, row, row_idx, row_instructions,
                         power, speed)
    ELSE LET pixel_value == row[col_idx + 1]
         IN  IF pixel_value = 1
             THEN OptimizedScanCols(row, row_idx, col_idx + 1, TRUE,
                                    IF ~in_line THEN col_idx ELSE line_start,
                                    row_instructions, power, speed)
             ELSE IF in_line
             THEN LET line_end == col_idx - 1
                  IN  OptimizedScanCols(row, row_idx, col_idx + 1, FALSE, line_start,
                                        Append(row_instructions,
                                               << <<line_start, row_idx>>,
                                                  <<line_end + 1, row_idx>>,
                                                  power, speed >>),
                                        power, speed)
             ELSE OptimizedScanCols(row, row_idx, col_idx + 1, FALSE, line_start,
                                    row_instructions, power, speed)

RECURSIVE OptimizedScanRows(_, _, _, _, _)
OptimizedScanRows(matrix, row_idx, all_instructions, power, speed) ==
    IF row_idx >= Len(matrix)
    THEN all_instructions
    ELSE LET row_instructions ==
                 OptimizedScanCols(matrix[row_idx + 1], row_idx, 0, FALSE, 0, <<>>,
                                   power, speed)
         IN  OptimizedScanRows(matrix, row_idx + 1,
                               IF row_instructions # <<>>
                               THEN Append(all_instructions, row_instructions)
                               ELSE all_instructions,
                               power, speed)

generate_instructions_from_image_optimized_v1(matrix, power, speed) ==
    OptimizedScanRows(matrix, 0, <<>>, power, speed)

-----------------------------------------------------------------------------
(* The text of a G-code line *)

Word(letter, val) == [letter |-> letter, fmt |-> "d", val |-> val]
WordF3(letter, val) == [letter |-> letter, fmt |-> "f3", val |-> val]

Abs(n) == IF n < 0 THEN -n ELSE n

(* a mutant of Pad3: the fraction is not padded with zeros *)
Pad3Unpadded(n) == ToString(n)

Pad3(n) ==
    IF n < 10 THEN "00" \o ToString(n)
    ELSE IF n < 100 THEN "0" \o ToString(n)
    ELSE ToString(n)

FormatFixed3(t) ==
    (IF t < 0 THEN "-" ELSE "") \o ToString(Abs(t) \div 1000) \o "." \o Pad3(Abs(t) % 1000)

RenderWord(w) ==
    w.letter \o (IF w.fmt = "f3" THEN FormatFixed3(w.val) ELSE ToString(w.val))

RECURSIVE RenderWords(_, _)
RenderWords(line, k) ==
    IF k > Len(line) THEN ""
    ELSE (IF k > 1 THEN " " ELSE "") \o RenderWord(line[k]) \o RenderWords(line, k + 1)

RenderLine(line) == RenderWords(line, 1)

RenderAll(lines) == [k \in 1..Len(lines) |-> RenderLine(lines[k])]

-----------------------------------------------------------------------------
(* GCodeGenerator.convert_instructions_to_gcode *)

G90Line == << Word("G", 90) >>
M3Line == << Word("M", 3) >>
M5Line == << Word("M", 5) >>

(* a mutant of FlipY: the row is not flipped *)
FlipYNone(y, image_height_pixels) == y

FlipY(y, image_height_pixels) == image_height_pixels - 1 - y

RelX(x, origin_x) == x - origin_x

(* a mutant of RelY: the origin row is subtracted without being flipped *)
RelYOriginNotFlipped(y, origin_y, image_height_pixels) ==
    (image_height_pixels - 1 - y) - origin_y

RelY(y, origin_y, image_height_pixels) ==
    FlipY(y, image_height_pixels) - (image_height_pixels - 1 - origin_y)

ToMm(rel) == rel * PixelSizeMicron

(* a mutant of PositionLine: the positioning move carries a feed word *)
PositionLineWithFeed(x_mm, y_mm, power) ==
    << [letter |-> "G", fmt |-> "d", val |-> 1],
       [letter |-> "X", fmt |-> "f3", val |-> x_mm],
       [letter |-> "Y", fmt |-> "f3", val |-> y_mm],
       [letter |-> "F", fmt |-> "d", val |-> DefaultTravelSpeed],
       [letter |-> "S", fmt |-> "d", val |-> power] >>

PositionLine(x_mm, y_mm, power) ==
    << Word("G", 1), WordF3("X", x_mm), WordF3("Y", y_mm), Word("S", power) >>

EngraveLine(x_mm, y_mm, speed, power) ==
    << Word("G", 1), WordF3("X", x_mm), WordF3("Y", y_mm), Word("F", speed),
       Word("S", power) >>

(* a mutant of ConvertInstruction: the laser is not switched off after the run *)
ConvertInstructionNoLaserOff(instruction, origin, image_height_pixels) ==
    << PositionLine((instruction[1][1] - origin[1]) * PixelSizeMicron,
                    (origin[2] - instruction[1][2]) * PixelSizeMicron, instruction[3]),
       M3Line,
       EngraveLine((instruction[2][1] - origin[1]) * PixelSizeMicron,
                   (origin[2] - instruction[2][2]) * PixelSizeMicron,
                   instruction[4], instruction[3]) >>

ConvertInstruction(instruction, origin, image_height_pixels) ==
    LET from_coord == instruction[1]
        to_coord == instruction[2]
        power == instruction[3]
        speed == instruction[4]
        from_x_mm == ToMm(RelX(from_coord[1], origin[1]))
        from_y_mm == ToMm(RelY(from_coord[2], origin[2], image_height_pixels))
        to_x_mm == ToMm(RelX(to_coord[1], origin[1]))
        to_y_mm == ToMm(RelY(to_coord[2], origin[2], image_height_pixels))
    IN  << PositionLine(from_x_mm, from_y_mm, power),
           M3Line,
           EngraveLine(to_x_mm, to_y_mm, speed, power),
           M5Line >>

RECURSIVE ConvertRow(_, _, _, _, _)
ConvertRow(row_instructions, k, origin, image_height_pixels, commands) ==
    IF k > Len(row_instructions)
    THEN commands
    ELSE ConvertRow(row_instructions, k + 1, origin, image_height_pixels,
                    commands \o ConvertInstruction(row_instructions[k], origin,
                                                   image_height_pixels))

(* a mutant of ConvertRows: the rows are taken from the last to the first *)
RECURSIVE ConvertRowsBottomUp(_, _, _, _, _)
ConvertRowsBottomUp(all_instructions, r, origin, image_height_pixels, commands) ==
    IF r > Len(all_instructions)
    THEN commands
    ELSE ConvertRowsBottomUp(all_instructions, r + 1, origin, image_height_pixels,
                             ConvertRow(all_instructions[Len(all_instructions) - r + 1],
                                        1, origin, image_height_pixels, commands))

RECURSIVE ConvertRows(_, _, _, _, _)
ConvertRows(all_instructions, r, origin, image_height_pixels, commands) ==
    IF r > Len(all_instructions)
    THEN commands
    ELSE ConvertRows(all_instructions, r + 1, origin, image_height_pixels,
                     ConvertRow(all_instructions[r], 1, origin, image_height_pixels,
                                commands))

convert_instructions_to_gcode(all_instructions, origin, image_height_pixels) ==
    ConvertRows(all_instructions, 1, origin, image_height_pixels, <<G90Line>>)

-----------------------------------------------------------------------------
(* SketchingStage.generate_gcode *)

(* a mutant of PowerFromPercent: the quotient is rounded, not truncated *)
PowerFromPercentRounded(power_percent) == (power_percent * 255 + 50) \div 100

PowerFromPercent(power_percent) == (power_percent * 255) \div 100

(* a mutant of find_origin_point: a missing origin is taken to be (0, 0) *)
find_origin_point_or_default ==
    IF origin_pixels = <<>> THEN <<0, 0>> ELSE origin_pixels

find_origin_point == origin_pixels

OriginMissing(origin_point) == origin_point = NoOrigin

PreviewParameters == {"image_path", "gcode_commands", "origin"}
PreviewCallKeywords == {"window_title", "profile_info"}
PreviewCallBinds == PreviewCallKeywords \subseteq PreviewParameters

(* generate_gcode once the origin is looked up: origin_point is NoOrigin, or
   the origin in pixels *)
generate_gcode_from(origin_point, has_profile, power_percent, speed_mmmin, export_ok, image_ok) ==
    LET power == IF has_profile THEN PowerFromPercent(power_percent) ELSE laser_power
        speed == IF has_profile THEN speed_mmmin ELSE travel_speed
        result == generate_instructions_from_image(binary_matrix, power, speed)
        commands == convert_instructions_to_gcode(result, origin_point,
                                                  Height(binary_matrix))
    IN  /\ last_op' = "generate_gcode"
        /\ profile_settings' = IF has_profile THEN <<power_percent, speed_mmmin>>
                               ELSE NoSettings
        /\ UNCHANGED <<binary_matrix, sendVars, sceneVars, exportVars, engraveVars, grblVars, canvasVars>>
        /\ IF OriginMissing(origin_point)
           THEN /\ dialog' = "No Origin Found"
                /\ raised' = "none"
                /\ instructions' = <<>>
                /\ gcode_commands' = <<>>
                /\ UNCHANGED <<laser_power, travel_speed, current_gcode_commands>>
           ELSE IF ~export_ok
           THEN /\ dialog' = "Export Error"
                /\ raised' = "none"
                /\ instructions' = <<>>
                /\ gcode_commands' = <<>>
                /\ UNCHANGED <<laser_power, travel_speed, current_gcode_commands>>
           ELSE IF ~image_ok
           THEN \* the extractor catches the exception, shows the dialog and
                \* returns None, which instructions = <<>> stands for here
                /\ laser_power' = power
                /\ travel_speed' = speed
                /\ dialog' = "Image Processing Error"
                /\ raised' = "none"
                /\ instructions' = <<>>
                /\ gcode_commands' = <<>>
                /\ UNCHANGED current_gcode_commands
           ELSE /\ laser_power' = power
                /\ travel_speed' = speed
                /\ instructions' = result
                /\ dialog' = "none"
                /\ IF result # <<>>
                   THEN /\ gcode_commands' = commands
                        /\ IF PreviewCallBinds
                           THEN /\ current_gcode_commands' = commands
                                /\ raised' = "none"
                           ELSE /\ raised' = "TypeError"
                                /\ UNCHANGED current_gcode_commands
                   ELSE /\ gcode_commands' = <<>>
                        /\ raised' = "none"
                        /\ UNCHANGED current_gcode_commands

generate_gcode(has_profile, power_percent, speed_mmmin, export_ok, image_ok) ==
    /\ generate_gcode_from(find_origin_point, has_profile, power_percent,
                           speed_mmmin, export_ok, image_ok)
    /\ UNCHANGED origin_pixels

(* The "G-Code" button: generate_gcode() without profile settings *)
GenerateButton ==
    \E export_ok \in BOOLEAN, image_ok \in BOOLEAN :
        generate_gcode(FALSE, 0, 0, export_ok, image_ok)

(* The engrave workflow: generate_gcode(power_percent, speed_mmmin, name) *)
EngraveWorkflow ==
    \E profile \in Profiles :
        generate_gcode(TRUE, profile[1], profile[2], TRUE, TRUE)

(* A caller runs the extractor and hands its result to the assembler *)
AssembleDirect ==
    LET result == generate_instructions_from_image(binary_matrix, laser_power,
                                                   travel_speed)
    IN  /\ last_op' = "convert_instructions_to_gcode"
        /\ instructions' = result
        /\ dialog' = "none"
        /\ IF Len(origin_pixels) # 2
           THEN /\ raised' = "TypeError"
                /\ gcode_commands' = <<>>
           ELSE /\ raised' = "none"
                /\ gcode_commands' =
                       convert_instructions_to_gcode(result, origin_pixels,
                                                     Height(binary_matrix))
        /\ UNCHANGED <<binary_matrix, origin_pixels, laser_power, travel_speed,
                       current_gcode_commands, profile_settings, sendVars,
                       sceneVars, exportVars, engraveVars, grblVars, canvasVars>>

(* A caller runs the second extraction function *)
ExtractOptimized(image_ok) ==
    /\ last_op' = "generate_instructions_from_image_optimized_v1"
    /\ raised' = "none"
    /\ gcode_commands' = <<>>
    /\ IF image_ok
       THEN /\ dialog' = "none"
            /\ instructions' =
                   generate_instructions_from_image_optimized_v1(
                       binary_matrix, laser_power, travel_speed)
       ELSE /\ dialog' = "Image Processing Error"
            /\ instructions' = <<>>
    /\ UNCHANGED <<binary_matrix, origin_pixels, laser_power, travel_speed,
                   current_gcode_commands, profile_settings, sendVars,
                   sceneVars, exportVars, engraveVars, grblVars, canvasVars>>

SceneIdle ==
    /\ drawing_objects = <<>>
    /\ undo_stack = <<>>
    /\ object_counter = 0
    /\ layers = <<1>>
    /\ active_layer_id = 1
    /\ layer_counter = 1
    /\ origin_mm = <<0, 0>>

EngraveIdle == gcode_lines = <<>>

CanvasIdle ==
    /\ canvas_items = <<>>
    /\ exported = [method |-> "none", depicted |-> {}]

GrblIdle ==
    /\ is_connected = FALSE
    /\ serial_connection = "None"
    /\ grbl_written = <<>>
    /\ answered = 0
    /\ input_buffer = <<>>
    /\ connect_result = "none"
    /\ monitor_pc = [m \in 1..MaxMonitors |-> "off"]
    /\ send_file_pc = "off"
    /\ send_file_i = 1
    /\ grbl_status = "Unknown"
    /\ polls = 0
    /\ read_log = <<>>

ExportIdle ==
    /\ samples = << <<255>> >>
    /\ flip_colors = FALSE
    /\ export_method = "none"
    /\ export_flipped = FALSE
    /\ export_image = <<>>
    /\ grayscale_matrix = <<>>
    /\ threshold_source = "none"
    /\ threshold_used = 0
    /\ thresholded = <<>>

SendIdle ==
    /\ pc = "idle"
    /\ i = 0
    /\ cancel_requested = FALSE
    /\ ser_written = <<>>
    /\ ser_open = FALSE
    /\ status_label = ""
    /\ messagebox = "none"

Init ==
    /\ binary_matrix \in Matrices
    /\ origin_pixels \in OriginsOf(binary_matrix)
    /\ laser_power = DefaultLaserPower
    /\ travel_speed = DefaultTravelSpeed
    /\ instructions = <<>>
    /\ gcode_commands = <<>>
    /\ current_gcode_commands = <<>>
    /\ dialog = "none"
    /\ raised = "none"
    /\ last_op = "none"
    /\ profile_settings = NoSettings
    /\ SendIdle
    /\ CanvasIdle
    /\ GrblIdle
    /\ EngraveIdle
    /\ SceneIdle
    /\ ExportIdle

Next ==
    \/ GenerateButton
    \/ EngraveWorkflow
    \/ AssembleDirect
    \/ \E image_ok \in BOOLEAN : ExtractOptimized(image_ok)

Spec == Init /\ [][Next]_vars

-----------------------------------------------------------------------------
(* The engrave workflow with the profiles Project._save_profile accepts:
   a power of 1..100 percent and a speed of 0..6000 mm/min *)

ProfilePowers == MinProfilePower..MaxProfilePower
ProfileSpeeds == {0, 1, 3000, MaxProfileSpeed}

proceed_to_gcode_generation(power_percent, speed_mmmin) ==
    generate_gcode(TRUE, power_percent, speed_mmmin, TRUE, TRUE)

InitProfile ==
    /\ binary_matrix = TwoRunMatrix
    /\ origin_pixels = <<0, 0>>
    /\ laser_power = DefaultLaserPower
    /\ travel_speed = DefaultTravelSpeed
    /\ instructions = <<>>
    /\ gcode_commands = <<>>
    /\ current_gcode_commands = <<>>
    /\ dialog = "none"
    /\ raised = "none"
    /\ last_op = "none"
    /\ profile_settings = NoSettings
    /\ SendIdle
    /\ CanvasIdle
    /\ GrblIdle
    /\ EngraveIdle
    /\ SceneIdle
    /\ ExportIdle

NextProfile ==
    \E power_percent \in ProfilePowers, speed_mmmin \in ProfileSpeeds :
        proceed_to_gcode_generation(power_percent, speed_mmmin)

SpecProfile == InitProfile /\ [][NextProfile]_vars

-----------------------------------------------------------------------------
(* GCodeGenerator._g2mark_send_gcode.  The Cancel button's callback runs only
   inside progress_window.update(): every step that makes that call takes
   `click`, whether the user pressed Cancel during it.  Every write to the
   port takes `ok`, whether pyserial accepted it or raised SerialException. *)

AlternatingRow(n) == [c \in 1..(2 * n) |-> c % 2]

(* the command list the preview holds for a raster of n runs *)
PreviewCommands(n) ==
    convert_instructions_to_gcode(
        generate_instructions_from_image(<<AlternatingRow(n)>>, DefaultLaserPower,
                                         DefaultTravelSpeed),
        <<0, 0>>, 1)

CommandBytes(command) == RenderLine(command) \o "\n"

SerialFailure ==
    /\ pc' = "done"
    /\ messagebox' = "Connection Error"

SendClicked(confirm, click) ==
    /\ pc = "idle"
    /\ IF current_gcode_commands = <<>>
       THEN /\ messagebox' = "No G-Code"
            /\ pc' = "done"
            /\ UNCHANGED <<i, cancel_requested, ser_written, ser_open, status_label>>
       ELSE IF ~confirm
       THEN /\ pc' = "done"
            /\ UNCHANGED <<i, cancel_requested, ser_written, ser_open, status_label,
                           messagebox>>
       ELSE /\ status_label' = "Connecting to laser engraver..."
            /\ cancel_requested' = click
            /\ pc' = "connect"
            /\ UNCHANGED <<i, ser_written, ser_open, messagebox>>
    /\ UNCHANGED <<pipeVars, sceneVars, exportVars, engraveVars, grblVars, canvasVars>>

Connect(opened, click1, ok, click2) ==
    /\ pc = "connect"
    /\ IF ~opened
       THEN /\ SerialFailure
            /\ UNCHANGED <<i, cancel_requested, ser_written, ser_open, status_label>>
       ELSE /\ ser_open' = TRUE
            /\ IF ~ok
               THEN /\ SerialFailure
                    /\ status_label' = "Connected! Initializing laser..."
                    /\ cancel_requested' = (cancel_requested \/ click1)
                    /\ UNCHANGED <<i, ser_written>>
               ELSE /\ ser_written' = Append(ser_written, "\r\n\r\n")
                    /\ status_label' = "Sending G-Code commands..."
                    /\ cancel_requested' = (cancel_requested \/ click1 \/ click2)
                    /\ i' = 0
                    /\ pc' = "loop"
                    /\ UNCHANGED messagebox
    /\ UNCHANGED <<pipeVars, sceneVars, exportVars, engraveVars, grblVars, canvasVars>>

(* the loop's cancel branch: laser off, feed hold, break *)
LoopCancel(ok1, ok2) ==
    /\ pc = "loop"
    /\ cancel_requested
    /\ status_label' = "Cancelling..."
    /\ IF ~ok1
       THEN /\ SerialFailure
            /\ UNCHANGED ser_written
       ELSE IF ~ok2
       THEN /\ SerialFailure
            /\ ser_written' = Append(ser_written, "M5\n")
       ELSE /\ ser_written' = ser_written \o <<"M5\n", "!\n">>
            /\ pc' = "after_loop"
            /\ UNCHANGED messagebox
    /\ UNCHANGED <<i, cancel_requested, ser_open, pipeVars, sceneVars, exportVars, engraveVars, grblVars, canvasVars>>

(* one pass of the loop that sends command i *)
LoopSend(ok, click) ==
    /\ pc = "loop"
    /\ ~cancel_requested
    /\ IF ~ok
       THEN /\ SerialFailure
            /\ UNCHANGED <<i, cancel_requested, ser_written>>
       ELSE /\ ser_written' =
                   Append(ser_written, CommandBytes(current_gcode_commands[i + 1]))
            /\ cancel_requested' = click
            /\ i' = i + 1
            /\ pc' = IF i + 1 < Len(current_gcode_commands) THEN "loop"
                     ELSE "after_loop"
            /\ UNCHANGED messagebox
    /\ UNCHANGED <<ser_open, status_label, pipeVars, sceneVars, exportVars, engraveVars, grblVars, canvasVars>>

AfterLoop ==
    /\ pc = "after_loop"
    /\ IF ~cancel_requested
       THEN /\ status_label' = "G-Code sent successfully!"
            /\ messagebox' = "G2Mark - Success"
       ELSE /\ status_label' = "Operation cancelled!"
            /\ messagebox' = "G2Mark - Cancelled"
    /\ ser_open' = FALSE
    /\ pc' = "done"
    /\ UNCHANGED <<i, cancel_requested, ser_written, pipeVars, sceneVars, exportVars, engraveVars, grblVars, canvasVars>>

InitSend ==
    /\ binary_matrix \in { <<AlternatingRow(n)>> : n \in 1..MaxStreamRuns }
    /\ origin_pixels = <<0, 0>>
    /\ laser_power = DefaultLaserPower
    /\ travel_speed = DefaultTravelSpeed
    /\ instructions = <<>>
    /\ gcode_commands = <<>>
    /\ current_gcode_commands \in
           { <<>>, PreviewCommands(Len(binary_matrix[1]) \div 2) }
    /\ dialog = "none"
    /\ raised = "none"
    /\ last_op = "none"
    /\ profile_settings = NoSettings
    /\ SendIdle
    /\ CanvasIdle
    /\ GrblIdle
    /\ EngraveIdle
    /\ SceneIdle
    /\ ExportIdle

NextSend ==
    \/ \E confirm \in BOOLEAN, click \in BOOLEAN : SendClicked(confirm, click)
    \/ \E opened \in BOOLEAN, click1 \in BOOLEAN, ok \in BOOLEAN, click2 \in BOOLEAN :
           Connect(opened, click1, ok, click2)
    \/ \E ok1 \in BOOLEAN, ok2 \in BOOLEAN : LoopCancel(ok1, ok2)
    \/ \E ok \in BOOLEAN, click \in BOOLEAN : LoopSend(ok, click)
    \/ AfterLoop

SpecSend == InitSend /\ [][NextSend]_vars

-----------------------------------------------------------------------------
(* The drawing scene: SketchingStage's objects and undo stack, the Origin
   tool and SketchingLayers.  Coordinates are in thousandths of a mm. *)

OriginPlaces == { <<0, 0>>, <<7200, 3600>>, <<71, 108>>, <<4536, 0>> }
Segments == { <<0, 0, 7200, 0>> }

DrawingObject(obj_type, real_coords, layer_id, operation_id) ==
    [type |-> obj_type, real_coords |-> real_coords, layer_id |-> layer_id,
     operation_id |-> operation_id]

Stage == [drawing_objects |-> drawing_objects, undo_stack |-> undo_stack,
          object_counter |-> object_counter]

(* add_drawing_object without an operation_id, as every caller calls it *)
add_drawing_object(stage, obj_type, real_coords) ==
    LET operation_id == stage.object_counter + 1
    IN  [drawing_objects |->
             Append(stage.drawing_objects,
                    DrawingObject(obj_type, real_coords, active_layer_id,
                                  operation_id)),
         undo_stack |-> Append(stage.undo_stack, operation_id),
         object_counter |-> operation_id]

(* a mutant of remove_existing_origin: an existing origin is kept *)
remove_existing_origin_kept(stage) == stage

remove_existing_origin(stage) ==
    LET NotOrigin(obj) == obj.type # "origin"
    IN  [stage EXCEPT !.drawing_objects = SelectSeq(stage.drawing_objects, NotOrigin)]

place_origin(stage, x_mm, y_mm) ==
    add_drawing_object(remove_existing_origin(stage), "origin", <<x_mm, y_mm>>)

RECURSIVE FirstOrigin(_, _)
FirstOrigin(objects, k) ==
    IF k > Len(objects) THEN NoOrigin
    ELSE IF objects[k].type = "origin" /\ Len(objects[k].real_coords) >= 2
    THEN <<objects[k].real_coords[1], objects[k].real_coords[2]>>
    ELSE FirstOrigin(objects, k + 1)

scene_find_origin_point == FirstOrigin(drawing_objects, 1)

SetStage(stage) ==
    /\ drawing_objects' = stage.drawing_objects
    /\ undo_stack' = stage.undo_stack
    /\ object_counter' = stage.object_counter

(* A canvas item: its shape, its tags, and the type of the drawing object or
   marker it depicts *)
CanvasItem(shape, tags, depicts) ==
    [shape |-> shape, tags |-> tags, depicts |-> depicts]

(* canvas.delete(tag) *)
canvas_delete(items, tag) ==
    LET Untagged(item) == tag \notin item.tags
    IN  SelectSeq(items, Untagged)

(* OriginTool._draw_origin_marker: two discs and the two lines of the cross *)
draw_origin_marker(preview) ==
    LET tag == IF preview THEN {"origin_preview", "temp"} ELSE {"origin", "drawing"}
    IN  << CanvasItem("oval", tag, "origin"), CanvasItem("oval", tag, "origin"),
           CanvasItem("line", tag, "origin"), CanvasItem("line", tag, "origin") >>

(* the items _redraw_drawing_objects creates for one object: none for an
   origin, which it has no branch for *)
RedrawnItems(obj) ==
    IF obj.type = "line" THEN << CanvasItem("line", {"drawing"}, "line") >>
    ELSE IF obj.type = "reference_point"
    THEN << CanvasItem("oval", {"drawing", "reference_point"}, "reference_point") >>
    ELSE <<>>

RECURSIVE redraw_drawing_objects(_, _)
redraw_drawing_objects(objects, k) ==
    IF k > Len(objects) THEN <<>>
    ELSE RedrawnItems(objects[k]) \o redraw_drawing_objects(objects, k + 1)

(* _redraw_all: canvas.delete("all"), then the objects are drawn again *)
redraw_all_of(objects) == redraw_drawing_objects(objects, 1)

(* LineTool: the line, then a reference point at each end *)
DrawLine(segment) ==
    /\ object_counter + 3 <= MaxOperations
    /\ SetStage(add_drawing_object(
                    add_drawing_object(
                        add_drawing_object(Stage, "line", segment),
                        "reference_point", <<segment[1], segment[2]>>),
                    "reference_point", <<segment[3], segment[4]>>))
    /\ canvas_items' =
           canvas_delete(Append(canvas_items,
                                CanvasItem("line", {"drawing"}, "line")), "temp")
    /\ UNCHANGED <<layers, active_layer_id, layer_counter, origin_mm, exported,
                   pipeVars, sendVars, exportVars, engraveVars, grblVars>>

(* OriginTool._handle_click inside the work area *)
PlaceOrigin(x_mm, y_mm) ==
    /\ object_counter + 1 <= MaxOperations
    /\ origin_mm' = <<x_mm, y_mm>>
    /\ SetStage(place_origin(Stage, x_mm, y_mm))
    /\ canvas_items' =
           canvas_delete(canvas_delete(canvas_items, "origin")
                             \o draw_origin_marker(FALSE), "temp")
    /\ UNCHANGED <<layers, active_layer_id, layer_counter, exported, pipeVars,
                   sendVars, exportVars, engraveVars, grblVars>>

(* a mutant of undo_last_operation: the oldest operation is undone *)
undo_last_operation_oldest ==
    /\ IF undo_stack = <<>>
       THEN UNCHANGED <<drawing_objects, undo_stack, canvas_items>>
       ELSE LET last_operation_id == undo_stack[1]
                Kept(obj) == obj.operation_id # last_operation_id
            IN  /\ undo_stack' = SubSeq(undo_stack, 2, Len(undo_stack))
                /\ drawing_objects' = SelectSeq(drawing_objects, Kept)
                /\ canvas_items' = redraw_all_of(SelectSeq(drawing_objects, Kept))
    /\ UNCHANGED <<object_counter, layers, active_layer_id, layer_counter,
                   origin_mm, exported, pipeVars, sendVars, exportVars,
                   engraveVars, grblVars>>

undo_last_operation ==
    /\ IF undo_stack = <<>>
       THEN UNCHANGED <<drawing_objects, undo_stack, canvas_items>>
       ELSE LET last_operation_id == undo_stack[Len(undo_stack)]
                Kept(obj) == obj.operation_id # last_operation_id
            IN  /\ undo_stack' = SubSeq(undo_stack, 1, Len(undo_stack) - 1)
                /\ drawing_objects' = SelectSeq(drawing_objects, Kept)
                /\ canvas_items' = redraw_all_of(SelectSeq(drawing_objects, Kept))
    /\ UNCHANGED <<object_counter, layers, active_layer_id, layer_counter,
                   origin_mm, exported, pipeVars, sendVars, exportVars,
                   engraveVars, grblVars>>

clear_canvas ==
    /\ drawing_objects' = <<>>
    /\ undo_stack' = <<>>
    /\ object_counter' = 0
    /\ canvas_items' = canvas_delete(canvas_delete(canvas_items, "drawing"), "temp")
    /\ UNCHANGED <<layers, active_layer_id, layer_counter, origin_mm, exported,
                   pipeVars, sendVars, exportVars, engraveVars, grblVars>>

LayerIds == { layers[k] : k \in 1..Len(layers) }

count_objects_in_layer(layer_id) ==
    Cardinality({ k \in 1..Len(drawing_objects) :
                    drawing_objects[k].layer_id = layer_id })

remove_objects_from_layer(layer_id) ==
    LET Elsewhere(obj) == obj.layer_id # layer_id
    IN  SelectSeq(drawing_objects, Elsewhere)

add_new_layer ==
    /\ layer_counter < MaxLayers
    /\ layer_counter' = layer_counter + 1
    /\ layers' = Append(layers, layer_counter + 1)
    /\ active_layer_id' = layer_counter + 1
    /\ UNCHANGED <<drawing_objects, undo_stack, object_counter, origin_mm,
                   pipeVars, sendVars, exportVars, engraveVars, grblVars, canvasVars>>

set_active_layer(layer_id) ==
    /\ active_layer_id' = layer_id
    /\ UNCHANGED <<drawing_objects, undo_stack, object_counter, layers,
                   layer_counter, origin_mm, pipeVars, sendVars, exportVars, engraveVars, grblVars, canvasVars>>

(* a mutant of DeleteActive: the deleted layer stays the active layer *)
DeleteActiveStaysActive(active, response) ==
    LET Others(layer_id) == layer_id # active
        remaining == SelectSeq(layers, Others)
    IN  IF Len(layers) <= 1 \/ (count_objects_in_layer(active) > 0 /\ ~response)
        THEN /\ active_layer_id' = active
             /\ UNCHANGED <<layers, drawing_objects, canvas_items>>
        ELSE /\ layers' = remaining
             /\ drawing_objects' = remove_objects_from_layer(active)
             /\ canvas_items' = redraw_all_of(remove_objects_from_layer(active))
             /\ active_layer_id' = active

(* delete_current_layer when `active` is the active layer; `response` is the
   answer to the confirmation it asks for when the layer holds objects *)
DeleteActive(active, response) ==
    LET Others(layer_id) == layer_id # active
        remaining == SelectSeq(layers, Others)
    IN  IF Len(layers) <= 1 \/ (count_objects_in_layer(active) > 0 /\ ~response)
        THEN /\ active_layer_id' = active
             /\ UNCHANGED <<layers, drawing_objects, canvas_items>>
        ELSE /\ layers' = remaining
             /\ drawing_objects' = remove_objects_from_layer(active)
             /\ canvas_items' = redraw_all_of(remove_objects_from_layer(active))
             /\ active_layer_id' = IF remaining # <<>> THEN remaining[1] ELSE active

delete_current_layer(response) ==
    /\ DeleteActive(active_layer_id, response)
    /\ UNCHANGED <<undo_stack, object_counter, layer_counter, origin_mm, exported,
                   pipeVars, sendVars, exportVars, engraveVars, grblVars>>

delete_layer(layer_id, response) ==
    /\ IF Len(layers) <= 1
       THEN UNCHANGED <<layers, drawing_objects, active_layer_id, canvas_items>>
       ELSE DeleteActive(layer_id, response)
    /\ UNCHANGED <<undo_stack, object_counter, layer_counter, origin_mm, exported,
                   pipeVars, sendVars, exportVars, engraveVars, grblVars>>

(* "Delete Layer" of a row's context menu.  The menu's lambda reads the loop
   variable `layer` when it runs: the layer the display loop visited last,
   which is the first of the list. *)
ContextMenuDelete(response) ==
    /\ Len(layers) > 1
    /\ delete_layer(layers[1], response)

(* The coordinates, in thousandths of a mm, whose product with 1 / 0.072 in
   double arithmetic falls just below the integer quotient: 4.536 * (1 / 0.072)
   is 62.99999999999999. *)
ProductBelowQuotient == {4536, 8136, 9072}

(* int(coord_mm * pixels_per_mm) for a coordinate that is not negative *)
origin_to_pixel(coord) ==
    IF coord \in ProductBelowQuotient
    THEN coord \div PixelSizeMicron - 1
    ELSE coord \div PixelSizeMicron

(* The "G-Code" button on the scene: generate_gcode looks the origin up in
   the drawing objects and converts it to pixels after the export *)
GenerateFromScene(export_ok) ==
    LET origin_point == scene_find_origin_point
        pixels == IF origin_point = NoOrigin THEN NoOrigin
                  ELSE <<origin_to_pixel(origin_point[1]),
                         origin_to_pixel(origin_point[2])>>
    IN  /\ generate_gcode_from(pixels, FALSE, 0, 0, export_ok, TRUE)
        /\ origin_pixels' = IF origin_point # NoOrigin /\ export_ok
                            THEN pixels ELSE origin_pixels

(* OriginTool._update_preview: the preview marker follows the mouse *)
update_preview ==
    /\ canvas_items' = canvas_delete(canvas_items, "origin_preview")
                           \o draw_origin_marker(TRUE)
    /\ UNCHANGED <<exported, pipeVars, sendVars, sceneVars, exportVars,
                   engraveVars, grblVars>>

(* a zoom, a pan or reset_view: _redraw_all *)
redraw_all ==
    /\ canvas_items' = redraw_all_of(drawing_objects)
    /\ UNCHANGED <<exported, pipeVars, sendVars, sceneVars, exportVars,
                   engraveVars, grblVars>>

(* a mutant of HiddenForExport: only the temporary items are hidden *)
HiddenForExportTempOnly(item) == "temp" \in item.tags

(* the items _export_temp_high_res_image hides before canvas.postscript *)
HiddenForExport(item) ==
    \/ "reference_point" \in item.tags
    \/ "origin" \in item.tags
    \/ "image_handles" \in item.tags
    \/ "temp" \in item.tags
    \/ "snap_indicator" \in item.tags

(* the objects _export_temp_high_res_image_fallback draws on the image *)
DrawnByFallback(obj) == obj.type \notin {"origin", "reference_point"}

(* _export_temp_high_res_image on the scene: the PostScript export of the
   canvas, or the fallback that draws the objects when it fails *)
ExportScene(postscript_ok) ==
    /\ exported' =
           IF postscript_ok
           THEN [method |-> "postscript",
                 depicted |-> { canvas_items[k].depicts :
                                  k \in { j \in 1..Len(canvas_items) :
                                             ~HiddenForExport(canvas_items[j]) } }]
           ELSE [method |-> "fallback",
                 depicted |-> { drawing_objects[k].type :
                                  k \in { j \in 1..Len(drawing_objects) :
                                             DrawnByFallback(drawing_objects[j]) } }]
    /\ UNCHANGED <<canvas_items, pipeVars, sendVars, sceneVars, exportVars,
                   engraveVars, grblVars>>

InitScene ==
    /\ binary_matrix = << <<1>> >>
    /\ origin_pixels = NoOrigin
    /\ laser_power = DefaultLaserPower
    /\ travel_speed = DefaultTravelSpeed
    /\ instructions = <<>>
    /\ gcode_commands = <<>>
    /\ current_gcode_commands = <<>>
    /\ dialog = "none"
    /\ raised = "none"
    /\ last_op = "none"
    /\ profile_settings = NoSettings
    /\ SendIdle
    /\ CanvasIdle
    /\ GrblIdle
    /\ EngraveIdle
    /\ SceneIdle
    /\ ExportIdle

NextScene ==
    \/ \E segment \in Segments : DrawLine(segment)
    \/ \E place \in OriginPlaces : PlaceOrigin(place[1], place[2])
    \/ undo_last_operation
    \/ clear_canvas
    \/ add_new_layer
    \/ \E layer_id \in LayerIds : set_active_layer(layer_id)
    \/ \E response \in BOOLEAN : delete_current_layer(response)
    \/ \E response \in BOOLEAN : ContextMenuDelete(response)
    \/ \E export_ok \in BOOLEAN : GenerateFromScene(export_ok)

SpecScene == InitScene /\ [][NextScene]_vars

(* The scene with its canvas: drawing, the origin tool with its preview, the
   redraws and the export of the work area *)
MarkerPlaces == { <<0, 0>>, <<7200, 3600>> }

NextCanvas ==
    \/ \E segment \in Segments : DrawLine(segment)
    \/ \E place \in MarkerPlaces : PlaceOrigin(place[1], place[2])
    \/ undo_last_operation
    \/ clear_canvas
    \/ add_new_layer
    \/ \E response \in BOOLEAN : delete_current_layer(response)
    \/ update_preview
    \/ redraw_all
    \/ \E postscript_ok \in BOOLEAN : ExportScene(postscript_ok)

SpecCanvas == InitScene /\ [][NextCanvas]_vars

-----------------------------------------------------------------------------
(* The export of the work area and the thresholding.  A sample is a grey
   level 0..255: the common value of the three channels of a pixel, which the
   conversion to mode L leaves as it is. *)

EdgeLevels == {0, 127, 128, 255}

(* every image of one sample, and the rows of up to MaxSampleCols samples
   at the levels around the threshold *)
SampleImages ==
    { << <<v>> >> : v \in 0..MaxIntensity } \cup
    UNION { [1..1 -> [1..w -> EdgeLevels]] : w \in 1..MaxSampleCols }

Thresholds == {64, 200}

(* a mutant of ThresholdCell: the comparison is not strict *)
ThresholdCellInclusive(sample_intensity, threshold) ==
    IF sample_intensity <= threshold THEN 1 ELSE 0

ThresholdCell(sample_intensity, threshold) ==
    IF sample_intensity < threshold THEN 1 ELSE 0

ThresholdMatrix(matrix, threshold) ==
    [r \in 1..Len(matrix) |->
        [c \in 1..Len(matrix[r]) |-> ThresholdCell(matrix[r][c], threshold)]]

(* a mutant of apply_color_flip: the image is returned as it came *)
apply_color_flip_skipped(image) == image

apply_color_flip(image) ==
    [r \in 1..Len(image) |->
        [c \in 1..Len(image[r]) |-> MaxIntensity - image[r][c]]]

toggle_flip_colors ==
    /\ flip_colors' = ~flip_colors
    /\ UNCHANGED <<samples, export_method, export_flipped, export_image,
                   grayscale_matrix, threshold_source, threshold_used,
                   thresholded, pipeVars, sendVars, sceneVars, engraveVars, grblVars, canvasVars>>

(* _export_temp_high_res_image: the PostScript method, and the fallback
   method when the PostScript image cannot be processed *)
export_temp_high_res_image(postscript_ok) ==
    /\ export_method' = IF postscript_ok THEN "postscript" ELSE "fallback"
    /\ export_flipped' = flip_colors
    /\ export_image' = IF flip_colors THEN apply_color_flip(samples) ELSE samples
    /\ UNCHANGED <<samples, flip_colors, grayscale_matrix, threshold_source,
                   threshold_used, thresholded, pipeVars, sendVars, sceneVars, engraveVars, grblVars, canvasVars>>

(* the extractor loading the temporary image and thresholding it *)
LoadAndThreshold ==
    /\ export_method # "none"
    /\ grayscale_matrix' = export_image
    /\ threshold_source' = "generate_instructions_from_image"
    /\ threshold_used' = ExtractorThreshold
    /\ thresholded' = ThresholdMatrix(export_image, ExtractorThreshold)
    /\ UNCHANGED <<samples, flip_colors, export_method, export_flipped,
                   export_image, pipeVars, sendVars, sceneVars, engraveVars, grblVars, canvasVars>>

(* ImageProcessor.prepare_engraving_matrix on the image of the samples, with
   or without a threshold argument *)
prepare_engraving_matrix(has_threshold, threshold_arg) ==
    LET threshold == IF has_threshold THEN threshold_arg ELSE DefaultThreshold
    IN  /\ grayscale_matrix' = samples
        /\ threshold_source' = IF has_threshold THEN "prepare_engraving_matrix"
                               ELSE "prepare_engraving_matrix default"
        /\ threshold_used' = threshold
        /\ thresholded' = ThresholdMatrix(samples, threshold)
        /\ UNCHANGED <<samples, flip_colors, export_method, export_flipped,
                       export_image, pipeVars, sendVars, sceneVars, engraveVars, grblVars, canvasVars>>

InitExport ==
    /\ binary_matrix = << <<1>> >>
    /\ origin_pixels = NoOrigin
    /\ laser_power = DefaultLaserPower
    /\ travel_speed = DefaultTravelSpeed
    /\ instructions = <<>>
    /\ gcode_commands = <<>>
    /\ current_gcode_commands = <<>>
    /\ dialog = "none"
    /\ raised = "none"
    /\ last_op = "none"
    /\ profile_settings = NoSettings
    /\ SendIdle
    /\ CanvasIdle
    /\ GrblIdle
    /\ EngraveIdle
    /\ SceneIdle
    /\ samples \in SampleImages
    /\ flip_colors = FALSE
    /\ export_method = "none"
    /\ export_flipped = FALSE
    /\ export_image = <<>>
    /\ grayscale_matrix = <<>>
    /\ threshold_source = "none"
    /\ threshold_used = 0
    /\ thresholded = <<>>

NextExport ==
    \/ toggle_flip_colors
    \/ \E postscript_ok \in BOOLEAN : export_temp_high_res_image(postscript_ok)
    \/ LoadAndThreshold
    \/ prepare_engraving_matrix(FALSE, 0)
    \/ \E threshold_arg \in Thresholds : prepare_engraving_matrix(TRUE, threshold_arg)

SpecExport == InitExport /\ [][NextExport]_vars

-----------------------------------------------------------------------------
(* ImageProcessor.generate_engraving_gcode.  A line of its list is held as
   the tuple of the command and its numbers: <<"G0", x, y, f>>, <<"M3", s>>,
   <<"G1", x, y, f>>, <<"M5">>, and <<"">> for the blank line. *)

EngraveHeader ==
    << <<"; G-code for image engraving">>, <<"; Original image">>,
       <<"; Engraving size">>, <<"; Resolution">>, <<"; Laser beam diameter">>,
       <<"; Total laser points">>, <<"G21 ; Set units to millimeters">>,
       <<"G90 ; Absolute positioning">>, <<"G0 X0 Y0 ; Move to origin">>,
       <<"M5 ; Laser off initially">>, <<"">> >>

EngraveFooter ==
    << <<"M5 ; Ensure laser is off">>, <<"G0 X0 Y0 ; Return to origin">>,
       <<"M30 ; Program end">> >>

(* a mutant of ColRange: every row is scanned from left to right *)
ColRangeLeftToRight(row, cols, k) == k

(* the k-th column (from 0) of the scan of a row *)
ColRange(row, cols, k) == IF row % 2 = 0 THEN k ELSE cols - 1 - k

RECURSIVE EngraveCols(_, _, _, _, _, _, _, _)
EngraveCols(matrix, row, k, laser_on, lines, feed_rate, power, speed) ==
    LET cols == Len(matrix[row + 1])
        col == ColRange(row, cols, k)
        x_pos == col * PixelSizeMicron
        y_pos == row * PixelSizeMicron
    IN  IF k >= cols
        THEN IF laser_on THEN Append(lines, <<"M5">>) ELSE lines
        ELSE LET should_engrave == matrix[row + 1][col + 1] = 1
             IN  IF should_engrave /\ ~laser_on
                 THEN EngraveCols(matrix, row, k + 1, TRUE,
                                  lines \o << <<"G0", x_pos, y_pos, speed>>,
                                              <<"M3", power>> >>,
                                  feed_rate, power, speed)
                 ELSE IF should_engrave /\ laser_on
                 THEN EngraveCols(matrix, row, k + 1, TRUE,
                                  Append(lines, <<"G1", x_pos, y_pos, feed_rate>>),
                                  feed_rate, power, speed)
                 ELSE IF ~should_engrave /\ laser_on
                 THEN EngraveCols(matrix, row, k + 1, FALSE, Append(lines, <<"M5">>),
                                  feed_rate, power, speed)
                 ELSE EngraveCols(matrix, row, k + 1, laser_on, lines,
                                  feed_rate, power, speed)

RECURSIVE EngraveRows(_, _, _, _, _, _)
EngraveRows(matrix, row, lines, feed_rate, power, speed) ==
    IF row >= Len(matrix)
    THEN lines
    ELSE EngraveRows(matrix, row + 1,
                     Append(EngraveCols(matrix, row, 0, FALSE, lines, feed_rate,
                                        power, speed),
                            <<"">>),
                     feed_rate, power, speed)

generate_engraving_gcode(feed_rate, power, speed) ==
    /\ gcode_lines' = EngraveRows(binary_matrix, 0, EngraveHeader, feed_rate,
                                  power, speed) \o EngraveFooter
    /\ UNCHANGED <<pipeVars, sendVars, sceneVars, exportVars, grblVars, canvasVars>>

EngraveSettings == { <<1000, 255, 3000>>, <<500, 1000, 3000>>, <<1000, 128, 6000>> }

InitEngrave ==
    /\ binary_matrix \in Matrices \ EmptyMatrices
    /\ origin_pixels = NoOrigin
    /\ laser_power = DefaultLaserPower
    /\ travel_speed = DefaultTravelSpeed
    /\ instructions = <<>>
    /\ gcode_commands = <<>>
    /\ current_gcode_commands = <<>>
    /\ dialog = "none"
    /\ raised = "none"
    /\ last_op = "none"
    /\ profile_settings = NoSettings
    /\ SendIdle
    /\ CanvasIdle
    /\ GrblIdle
    /\ EngraveIdle
    /\ SceneIdle
    /\ ExportIdle

NextEngrave ==
    \E settings \in EngraveSettings :
        generate_engraving_gcode(settings[1], settings[2], settings[3])

SpecEngrave == InitEngrave /\ [][NextEngrave]_vars

-----------------------------------------------------------------------------
(* GRBLController: connect, disconnect, the status-monitoring threads and the
   send_file worker thread of send_gcode_file.  The threads share the serial
   connection; each of their steps is one action, and the steps interleave. *)

WakeUp == "\r\n\r\n"
StatusQuery == "?"
StatusReport == "<Idle|MPos:0.000,0.000,0.000|FS:0,0>"
OkResponse == "ok"
ErrorResponse == "error:2"

(* the lines send_gcode_file is given *)
GcodeFile == <<"; G-code", "M3 S255", "M5">>

Skipped(line) == line = "" \/ line = "; G-code"

(* _send_wake_up on a connection that holds written: nothing is written
   unless the controller is marked connected *)
send_wake_up(connected, written) ==
    IF ~connected THEN written ELSE Append(written, WakeUp)

(* flushInput of _send_wake_up *)
flush_after_wake_up(connected, buffer) ==
    IF ~connected THEN buffer ELSE <<>>

GrblFrame == UNCHANGED <<pipeVars, sendVars, sceneVars, exportVars, engraveVars, canvasVars>>

connect(port_ok) ==
    /\ GrblFrame
    /\ UNCHANGED <<send_file_pc, send_file_i, grbl_status, polls, read_log>>
    /\ IF ~port_ok
       THEN /\ is_connected' = FALSE
            /\ connect_result' = "False"
            /\ UNCHANGED <<serial_connection, grbl_written, answered,
                           input_buffer, monitor_pc>>
       ELSE /\ \E m \in 1..MaxMonitors : monitor_pc[m] = "off"
            /\ serial_connection' = "open"
            /\ grbl_written' = send_wake_up(is_connected, <<>>)
            /\ answered' = 0
            /\ input_buffer' = flush_after_wake_up(is_connected, input_buffer)
            /\ is_connected' = TRUE
            /\ LET m == CHOOSE m \in 1..MaxMonitors : monitor_pc[m] = "off"
               IN  monitor_pc' = [monitor_pc EXCEPT ![m] = "loop"]
            /\ connect_result' = "True"

disconnect ==
    /\ GrblFrame
    /\ serial_connection' = IF serial_connection = "open" THEN "closed"
                            ELSE serial_connection
    /\ is_connected' = FALSE
    /\ grbl_status' = "Disconnected"
    /\ UNCHANGED <<grbl_written, answered, input_buffer, connect_result,
                   monitor_pc, send_file_pc, send_file_i, polls, read_log>>

(* send_command returns True: the command is written *)
CommandWritable == is_connected /\ serial_connection = "open"

send_gcode_file ==
    /\ GrblFrame
    /\ send_file_pc = "off"
    /\ send_file_pc' = IF is_connected THEN "send" ELSE "off"
    /\ UNCHANGED <<is_connected, serial_connection, grbl_written, answered,
                   input_buffer, connect_result, monitor_pc, send_file_i,
                   grbl_status, polls, read_log>>

(* one turn of the loop of send_file up to the call of _wait_for_ok *)
SendFileLine ==
    /\ GrblFrame
    /\ send_file_pc = "send"
    /\ UNCHANGED <<is_connected, serial_connection, answered, input_buffer,
                   connect_result, monitor_pc, grbl_status, polls, read_log>>
    /\ IF send_file_i > Len(GcodeFile)
       THEN /\ send_file_pc' = "done"
            /\ UNCHANGED <<send_file_i, grbl_written>>
       ELSE IF Skipped(GcodeFile[send_file_i]) \/ ~CommandWritable
            THEN /\ send_file_i' = send_file_i + 1
                 /\ UNCHANGED <<send_file_pc, grbl_written>>
            ELSE /\ grbl_written' = Append(grbl_written, GcodeFile[send_file_i])
                 /\ send_file_pc' = "wait"
                 /\ UNCHANGED send_file_i

(* _wait_for_ok finds a line waiting and reads it *)
WaitForOkRead ==
    /\ GrblFrame
    /\ send_file_pc = "wait"
    /\ serial_connection = "open"
    /\ input_buffer # <<>>
    /\ LET response == Head(input_buffer)
           returns == response = OkResponse \/ response = ErrorResponse
       IN  /\ input_buffer' = Tail(input_buffer)
           /\ read_log' = Append(read_log, <<"send_file", response>>)
           /\ send_file_pc' = IF returns THEN "send" ELSE "wait"
           /\ send_file_i' = IF returns THEN send_file_i + 1 ELSE send_file_i
    /\ UNCHANGED <<is_connected, serial_connection, grbl_written, answered,
                   connect_result, monitor_pc, grbl_status, polls>>

(* _wait_for_ok gives up after its timeout with nothing to read *)
WaitForOkTimeout ==
    /\ GrblFrame
    /\ send_file_pc = "wait"
    /\ serial_connection = "open"
    /\ input_buffer = <<>>
    /\ send_file_pc' = "send"
    /\ send_file_i' = send_file_i + 1
    /\ UNCHANGED <<is_connected, serial_connection, grbl_written, answered,
                   input_buffer, connect_result, monitor_pc, grbl_status,
                   polls, read_log>>

(* in_waiting of a closed port raises: the worker thread ends *)
WaitForOkPortClosed ==
    /\ GrblFrame
    /\ send_file_pc = "wait"
    /\ serial_connection # "open"
    /\ send_file_pc' = "done"
    /\ UNCHANGED <<is_connected, serial_connection, grbl_written, answered,
                   input_buffer, connect_result, monitor_pc, send_file_i,
                   grbl_status, polls, read_log>>

(* the test of the loop of monitor and the first half of get_status: the
   status query is written *)
MonitorQuery(m) ==
    /\ GrblFrame
    /\ monitor_pc[m] = "loop"
    /\ UNCHANGED <<is_connected, serial_connection, answered, input_buffer,
                   connect_result, send_file_pc, send_file_i, grbl_status,
                   read_log>>
    /\ IF ~is_connected
       THEN /\ monitor_pc' = [monitor_pc EXCEPT ![m] = "off"]
            /\ UNCHANGED <<grbl_written, polls>>
       ELSE /\ polls < MaxPolls
            /\ polls' = polls + 1
            /\ grbl_written' = IF CommandWritable
                               THEN Append(grbl_written, StatusQuery)
                               ELSE grbl_written
            /\ monitor_pc' = [monitor_pc EXCEPT ![m] = "asked"]

(* the second half of get_status, after its sleep: the line that waits in the
   input buffer, if any, is read and parsed as a status report *)
MonitorRead(m) ==
    /\ GrblFrame
    /\ monitor_pc[m] = "asked"
    /\ UNCHANGED <<is_connected, serial_connection, grbl_written, answered,
                   connect_result, send_file_pc, send_file_i, polls>>
    /\ IF serial_connection # "open"
       THEN /\ monitor_pc' = [monitor_pc EXCEPT ![m] = "off"]
            /\ UNCHANGED <<input_buffer, grbl_status, read_log>>
       ELSE /\ monitor_pc' = [monitor_pc EXCEPT ![m] = "loop"]
            /\ IF input_buffer = <<>>
               THEN UNCHANGED <<input_buffer, grbl_status, read_log>>
               ELSE LET response == Head(input_buffer)
                    IN  /\ input_buffer' = Tail(input_buffer)
                        /\ read_log' = Append(read_log, <<"monitor", response>>)
                        /\ grbl_status' = IF response = StatusReport
                                          THEN "Idle" ELSE grbl_status

(* the controller board answers the next write: a status report to a status
   query, nothing to the wake-up sequence, ok or an error to a command *)
ControllerAnswers ==
    /\ GrblFrame
    /\ serial_connection = "open"
    /\ answered < Len(grbl_written)
    /\ answered' = answered + 1
    /\ LET written == grbl_written[answered + 1]
       IN  IF written = StatusQuery
           THEN input_buffer' = Append(input_buffer, StatusReport)
           ELSE IF written = WakeUp
           THEN UNCHANGED input_buffer
           ELSE \E response \in {OkResponse, ErrorResponse} :
                    input_buffer' = Append(input_buffer, response)
    /\ UNCHANGED <<is_connected, serial_connection, grbl_written,
                   connect_result, monitor_pc, send_file_pc, send_file_i,
                   grbl_status, polls, read_log>>

InitGrbl ==
    /\ binary_matrix = << <<1>> >>
    /\ origin_pixels = NoOrigin
    /\ laser_power = DefaultLaserPower
    /\ travel_speed = DefaultTravelSpeed
    /\ instructions = <<>>
    /\ gcode_commands = <<>>
    /\ current_gcode_commands = <<>>
    /\ dialog = "none"
    /\ raised = "none"
    /\ last_op = "none"
    /\ profile_settings = NoSettings
    /\ SendIdle
    /\ CanvasIdle
    /\ GrblIdle
    /\ EngraveIdle
    /\ SceneIdle
    /\ ExportIdle

NextGrbl ==
    \/ \E port_ok \in BOOLEAN : connect(port_ok)
    \/ disconnect
    \/ send_gcode_file
    \/ SendFileLine
    \/ WaitForOkRead
    \/ WaitForOkTimeout
    \/ WaitForOkPortClosed
    \/ \E m \in 1..MaxMonitors : MonitorQuery(m)
    \/ \E m \in 1..MaxMonitors : MonitorRead(m)
    \/ ControllerAnswers

SpecGrbl == InitGrbl /\ [][NextGrbl]_vars

-----------------------------------------------------------------------------
(* What the claims are stated with *)

RECURSIVE Flatten(_)
Flatten(all_instructions) ==
    IF all_instructions = <<>> THEN <<>>
    ELSE Head(all_instructions) \o Flatten(Tail(all_instructions))

RECURSIVE SumSeq(_)
SumSeq(q) == IF q = <<>> THEN 0 ELSE Head(q) + SumSeq(Tail(q))

(* the extractor ran in the last operation *)
ExtractorRan ==
    \/ last_op = "convert_instructions_to_gcode"
    \/ last_op = "generate_gcode" /\ dialog = "none"

(* the assembler returned a command list in the last operation *)
AssemblerReturned ==
    \/ last_op = "convert_instructions_to_gcode" /\ raised = "none"
    \/ last_op = "generate_gcode" /\ dialog = "none" /\ instructions # <<>>

Runs == Flatten(instructions)
NumRuns == Len(Runs)

RunStart(run) == run[1][1]
RunEnd(run) == run[2][1]
RunRow(run) == run[1][2]

(* the runs the extractor emitted for row r, in emission order *)
RunsOfRow(r) == SelectSeq(Runs, LAMBDA run : RunRow(run) = r)

Cell(r, c) == binary_matrix[r + 1][c + 1]

(* the maximal contiguous runs of 1-cells of row r, as (start, end exclusive) *)
MaximalRuns(r) ==
    LET w == Width(binary_matrix)
    IN  { ab \in (0..w) \X (0..w) :
            /\ ab[1] < ab[2]
            /\ \A c \in ab[1]..(ab[2] - 1) : Cell(r, c) = 1
            /\ ab[1] = 0 \/ Cell(r, ab[1] - 1) = 0
            /\ ab[2] = w \/ Cell(r, ab[2]) = 0 }

OnesInRow(r) == Cardinality({ c \in 0..(Width(binary_matrix) - 1) : Cell(r, c) = 1 })

RowIndices == 0..(Height(binary_matrix) - 1)

IsM3(line) == line = M3Line
IsM5(line) == line = M5Line
IsG1(line) == line[1] = Word("G", 1)
Letters(line) == [k \in 1..Len(line) |-> line[k].letter]
WordAt(line, letter) == line[CHOOSE k \in 1..Len(line) : line[k].letter = letter]

CountLines(lines, line) == Cardinality({ k \in 1..Len(lines) : lines[k] = line })

(* the four lines the stream holds for its k-th run *)
PositionOf(k) == gcode_commands[4 * k - 2]
LaserOnOf(k) == gcode_commands[4 * k - 1]
EngraveOf(k) == gcode_commands[4 * k]
LaserOffOf(k) == gcode_commands[4 * k + 1]

-----------------------------------------------------------------------------
(* C1: for every row of the matrix the extractor emits exactly the maximal
   contiguous runs of 1-cells of the row as (start, end exclusive), sorted by
   start and non-overlapping, their lengths adding up to the number of
   1-cells of the row; a run that reaches the last column is closed at
   end = row width and not dropped. *)
C1_RunsAreMaximalRuns ==
    ExtractorRan =>
        \A r \in RowIndices :
            LET runs == RunsOfRow(r)
                w == Width(binary_matrix)
            IN  /\ { <<RunStart(runs[k]), RunEnd(runs[k])>> : k \in 1..Len(runs) }
                       = MaximalRuns(r)
                /\ \A k \in 1..Len(runs) : runs[k][2][2] = r
                /\ \A k \in 1..(Len(runs) - 1) :
                       /\ RunStart(runs[k]) < RunStart(runs[k + 1])
                       /\ RunEnd(runs[k]) <= RunStart(runs[k + 1])
                /\ SumSeq([k \in 1..Len(runs) |-> RunEnd(runs[k]) - RunStart(runs[k])])
                       = OnesInRow(r)
                /\ (w > 0 /\ Cell(r, w - 1) = 1) =>
                       /\ runs # <<>>
                       /\ RunEnd(runs[Len(runs)]) = w

(* a row that ends inside a run, preceded by an earlier run of the same row *)
C1_Witness ==
    /\ ExtractorRan
    /\ Width(binary_matrix) > 0
    /\ \E r \in RowIndices :
           /\ Cell(r, Width(binary_matrix) - 1) = 1
           /\ Len(RunsOfRow(r)) >= 2
           /\ RunEnd(RunsOfRow(r)[Len(RunsOfRow(r))]) = Width(binary_matrix)

-----------------------------------------------------------------------------
(* C2: in the stream the assembler returns for N runs the number of M3 lines
   equals the number of M5 lines equals N, every M3 is immediately preceded
   by a G1 position move, between any two M3 lines there is an M5, and after
   the last line the laser is off. *)
C2_LaserBracketing ==
    AssemblerReturned =>
        LET n == Len(gcode_commands)
            m3 == { k \in 1..n : IsM3(gcode_commands[k]) }
            m5 == { k \in 1..n : IsM5(gcode_commands[k]) }
        IN  /\ Cardinality(m3) = NumRuns
            /\ Cardinality(m5) = NumRuns
            /\ \A k \in m3 : k > 1 /\ IsG1(gcode_commands[k - 1])
            /\ \A k1 \in m3 : \A k2 \in m3 :
                   k1 < k2 => \E k \in m5 : k1 < k /\ k < k2
            /\ \A k \in m3 : \E k5 \in m5 : k5 > k

C2_Witness ==
    /\ AssemblerReturned
    /\ NumRuns >= 3
    /\ Cardinality({ k \in 1..Len(gcode_commands) : IsM3(gcode_commands[k]) }) >= 3

-----------------------------------------------------------------------------
(* C3: the stream begins with a G90 line that occurs exactly once, followed
   for each run by exactly four lines in this order and nothing else: the
   positioning G1 X Y S<power> (no F word, the laser off at that point), M3,
   the engraving G1 X Y F<speed> S<power> with the same power, M5; N runs
   give 1 + 4N lines. *)
C3_LineTemplate ==
    AssemblerReturned =>
        /\ Len(gcode_commands) = 1 + 4 * NumRuns
        /\ gcode_commands[1] = G90Line
        /\ CountLines(gcode_commands, G90Line) = 1
        /\ \A k \in 1..NumRuns :
               /\ Letters(PositionOf(k)) = <<"G", "X", "Y", "S">>
               /\ IsG1(PositionOf(k))
               /\ IsM3(LaserOnOf(k))
               /\ Letters(EngraveOf(k)) = <<"G", "X", "Y", "F", "S">>
               /\ IsG1(EngraveOf(k))
               /\ WordAt(EngraveOf(k), "S") = WordAt(PositionOf(k), "S")
               /\ WordAt(EngraveOf(k), "S").val = Runs[k][3]
               /\ WordAt(EngraveOf(k), "F").val = Runs[k][4]
               /\ IsM5(LaserOffOf(k))
               /\ Cardinality({ j \in 1..(4 * k - 3) : IsM3(gcode_commands[j]) })
                      = Cardinality({ j \in 1..(4 * k - 3) : IsM5(gcode_commands[j]) })

C3_Witness ==
    /\ AssemblerReturned
    /\ NumRuns = 2
    /\ Len(gcode_commands) = 9
    /\ RenderLine(gcode_commands[1]) = "G90"
    /\ RenderLine(gcode_commands[3]) = "M3"

-----------------------------------------------------------------------------
(* C4 as stated: calling the assembler (generate_gcode or
   convert_instructions_to_gcode) when no origin is set raises
   MissingOriginError to the caller and produces zero output lines. *)
C4_RaisesMissingOriginError ==
    (last_op # "none" /\ origin_pixels = NoOrigin) =>
        /\ raised = "MissingOriginError"
        /\ gcode_commands = <<>>

(* C4 as amended: with no origin set no output line is produced and no
   default origin is substituted; generate_gcode shows the "No Origin Found"
   warning and returns without raising and without running the extractor,
   and convert_instructions_to_gcode called with no origin raises TypeError. *)
C4_NoOriginNoOutput ==
    (last_op # "none" /\ origin_pixels = NoOrigin) =>
        /\ gcode_commands = <<>>
        /\ current_gcode_commands = <<>>
        /\ last_op = "generate_gcode" =>
               /\ dialog = "No Origin Found"
               /\ raised = "none"
               /\ instructions = <<>>
        /\ last_op = "convert_instructions_to_gcode" => raised = "TypeError"

(* a raster with runs, no origin, and a generation request made *)
C4_Witness ==
    /\ origin_pixels = NoOrigin
    /\ last_op = "generate_gcode"
    /\ dialog = "No Origin Found"
    /\ \E r \in RowIndices : OnesInRow(r) > 0

-----------------------------------------------------------------------------
(* the line pair the transform (start - ox, oy - row) * 0.072 mm gives a run *)
ExpectedPosition(run) ==
    PositionLine((RunStart(run) - origin_pixels[1]) * PixelSizeMicron,
                 (origin_pixels[2] - RunRow(run)) * PixelSizeMicron, run[3])
ExpectedEngrave(run) ==
    EngraveLine((RunEnd(run) - origin_pixels[1]) * PixelSizeMicron,
                (origin_pixels[2] - RunRow(run)) * PixelSizeMicron, run[4], run[3])

(* C5: the assembler never reorders runs: the k-th (move, M3, engrave, M5)
   quadruple of the stream is the one of the k-th run in the extractor's
   emission order, which is row-major (increasing row, and within a row
   increasing start column). *)
C5_RowMajorOrderKept ==
    AssemblerReturned =>
        /\ Len(gcode_commands) = 1 + 4 * NumRuns
        /\ \A k \in 1..NumRuns :
               /\ PositionOf(k) = ExpectedPosition(Runs[k])
               /\ IsM3(LaserOnOf(k))
               /\ EngraveOf(k) = ExpectedEngrave(Runs[k])
               /\ IsM5(LaserOffOf(k))
        /\ \A k \in 1..(NumRuns - 1) :
               \/ RunRow(Runs[k]) < RunRow(Runs[k + 1])
               \/ /\ RunRow(Runs[k]) = RunRow(Runs[k + 1])
                  /\ RunStart(Runs[k]) < RunStart(Runs[k + 1])

(* runs in two rows, one of the rows holding two runs *)
C5_Witness ==
    /\ AssemblerReturned
    /\ Len(instructions) >= 2
    /\ \E r \in 1..Len(instructions) : Len(instructions[r]) >= 2

-----------------------------------------------------------------------------
(* C6: within every row the emitted runs satisfy start < end (exclusive),
   and consecutive runs never overlap or touch: r.end < r'.start. *)
C6_RunsSeparated ==
    ExtractorRan =>
        \A r \in 1..Len(instructions) :
            LET row == instructions[r]
            IN  /\ \A k \in 1..Len(row) : RunStart(row[k]) < RunEnd(row[k])
                /\ \A k \in 1..(Len(row) - 1) :
                       /\ RunRow(row[k]) = RunRow(row[k + 1])
                       /\ RunEnd(row[k]) < RunStart(row[k + 1])

(* a row with a one-cell run followed by another run one 0-cell later *)
C6_Witness ==
    /\ ExtractorRan
    /\ \E r \in 1..Len(instructions) :
           /\ Len(instructions[r]) >= 2
           /\ RunEnd(instructions[r][1]) = RunStart(instructions[r][1]) + 1
           /\ RunStart(instructions[r][2]) = RunEnd(instructions[r][1]) + 1

-----------------------------------------------------------------------------
(* C7: for every image height, and origin pixel (ox, oy), the assembler's
   pixel-to-relative-mm transform maps the origin pixel itself to exactly
   (0, 0) mm: a move to the origin pixel is written X0.000 Y0.000. *)
C7_OriginMapsToZero ==
    AssemblerReturned =>
        \A k \in 1..NumRuns :
            /\ Runs[k][1] = origin_pixels =>
                   /\ WordAt(PositionOf(k), "X").val = 0
                   /\ WordAt(PositionOf(k), "Y").val = 0
                   /\ RenderLine(PositionOf(k))
                          = "G1 X0.000 Y0.000 S" \o ToString(Runs[k][3])
            /\ Runs[k][2] = origin_pixels =>
                   /\ WordAt(EngraveOf(k), "X").val = 0
                   /\ WordAt(EngraveOf(k), "Y").val = 0

(* a run that starts at the origin pixel, the origin not on the bottom row
   and not in the first column *)
C7_Witness ==
    /\ AssemblerReturned
    /\ origin_pixels # NoOrigin
    /\ origin_pixels[1] > 0
    /\ origin_pixels[2] < Height(binary_matrix) - 1
    /\ \E k \in 1..NumRuns : Runs[k][1] = origin_pixels

-----------------------------------------------------------------------------
(* C8: with the origin on the bottom row (origin row = H - 1) a run at row 0
   maps to the maximum relative Y of all rows, (H - 1) * scale, a run at row
   H - 1 maps to relative Y = 0, and relative Y strictly decreases as the row
   index increases. *)
C8_VerticalFlip ==
    (AssemblerReturned /\ origin_pixels[2] = Height(binary_matrix) - 1) =>
        LET H == Height(binary_matrix)
            Y(k) == WordAt(PositionOf(k), "Y").val
        IN  /\ \A k \in 1..NumRuns :
                   /\ RunRow(Runs[k]) = 0 =>
                          /\ Y(k) = (H - 1) * PixelSizeMicron
                          /\ \A j \in 1..NumRuns : Y(j) <= Y(k)
                   /\ RunRow(Runs[k]) = H - 1 => Y(k) = 0
                   /\ WordAt(EngraveOf(k), "Y").val = Y(k)
            /\ \A j \in 1..NumRuns : \A k \in 1..NumRuns :
                   RunRow(Runs[j]) < RunRow(Runs[k]) => Y(j) > Y(k)

(* origin on the bottom row of a raster of two rows or more, runs in the top
   and in the bottom row *)
C8_Witness ==
    /\ AssemblerReturned
    /\ Height(binary_matrix) >= 2
    /\ origin_pixels[2] = Height(binary_matrix) - 1
    /\ \E j \in 1..NumRuns : RunRow(Runs[j]) = 0
    /\ \E k \in 1..NumRuns : RunRow(Runs[k]) = Height(binary_matrix) - 1

-----------------------------------------------------------------------------
(* the end-to-end scenario: the 4x2 matrix, origin pixel (0,0), power 255,
   speed 1000 *)
ScenarioRan ==
    /\ AssemblerReturned
    /\ binary_matrix = ScenarioMatrix
    /\ origin_pixels = <<0, 0>>
    /\ laser_power = 255
    /\ travel_speed = 1000

(* C9 as stated: the scenario yields exactly the 9 lines below, the mm
   conversion being made with the scale 1.0. *)
C9_ScenarioAtScaleOne ==
    ScenarioRan =>
        RenderAll(gcode_commands) =
            << "G90",
               "G1 X0.000 Y1.000 S255", "M3", "G1 X2.000 Y1.000 F1000 S255", "M5",
               "G1 X1.000 Y0.000 S255", "M3", "G1 X4.000 Y0.000 F1000 S255", "M5" >>

(* C9 as amended: the assembler takes no scale, it converts with the fixed
   0.072 mm per pixel, and it flips the origin row as well, so that row 0,
   the origin's row, is at Y 0 and row 1 below it at Y -0.072. *)
C9_ScenarioAtFixedScale ==
    ScenarioRan =>
        RenderAll(gcode_commands) =
            << "G90",
               "G1 X0.000 Y0.000 S255", "M3", "G1 X0.144 Y0.000 F1000 S255", "M5",
               "G1 X0.072 Y-0.072 S255", "M3", "G1 X0.288 Y-0.072 F1000 S255", "M5" >>

C9_Witness ==
    /\ ScenarioRan
    /\ last_op = "generate_gcode"
    /\ Len(gcode_commands) = 9

-----------------------------------------------------------------------------
(* the port's writes end with the laser-off and the feed hold *)
EndsWithStop ==
    /\ Len(ser_written) >= 2
    /\ ser_written[Len(ser_written) - 1] = "M5\n"
    /\ ser_written[Len(ser_written)] = "!\n"

(* C10: with a cancel request possible at any point of the streaming loop,
   M5 followed by the feed hold "!" are written before the stream terminates
   and the port is closed: whenever the operation ends reported as cancelled,
   M5 and "!" have been written to the port. *)
C10_CancelledMeansStopped ==
    (pc = "done" /\ messagebox = "G2Mark - Cancelled") =>
        /\ EndsWithStop
        /\ ~ser_open


-----------------------------------------------------------------------------
(* Claims about the scene *)

OriginObjects == { k \in 1..Len(drawing_objects) : drawing_objects[k].type = "origin" }

(* C11: the scene holds at most one origin object, and the origin that an
   origin lookup returns is the one placed most recently: a placement removes
   the origin that was there before it. *)
C11_SingleOrigin ==
    /\ Cardinality(OriginObjects) <= 1
    /\ OriginObjects # {} => scene_find_origin_point = origin_mm

(* an origin stands in the scene after an earlier one was replaced: with no
   layer ever added, an operation id without object on the undo stack can only
   be the replaced origin's *)
C11_Witness ==
    /\ layer_counter = 1
    /\ Cardinality(OriginObjects) = 1
    /\ \E k \in 1..Len(undo_stack) :
           /\ undo_stack[k] < drawing_objects[Len(drawing_objects)].operation_id
           /\ \A j \in 1..Len(drawing_objects) :
                  drawing_objects[j].operation_id # undo_stack[k]
    /\ drawing_objects[Len(drawing_objects)].type = "origin"
    /\ scene_find_origin_point = <<7200, 3600>>


-----------------------------------------------------------------------------
(* Claims about rasters without a dark cell *)

Blank(m) == \A r \in 1..Len(m) : \A c \in 1..Len(m[r]) : m[r][c] = 0

(* C12: a raster without a dark cell (blank, or of no rows, or of no columns)
   gives an empty instruction list and nothing is raised or reported for it:
   generate_gcode shows no error dialog, and the assembler called with the
   empty list returns the header line alone. *)
C12_BlankIsEmptyNotError ==
    (ExtractorRan /\ Blank(binary_matrix)) =>
        /\ instructions = <<>>
        /\ dialog = "none"
        /\ last_op = "generate_gcode" => raised = "none"
        /\ (last_op = "convert_instructions_to_gcode" /\ origin_pixels # NoOrigin) =>
               (raised = "none" /\ gcode_commands = <<G90Line>>)

(* the extractor ran on a raster of no columns within generate_gcode *)
C12_Witness ==
    /\ ExtractorRan
    /\ binary_matrix = << <<>>, <<>> >>
    /\ last_op = "generate_gcode"
    /\ instructions = <<>>

(* the extractor ran on a blank raster that has cells, for the assembler *)
C12_WitnessBlank ==
    /\ ExtractorRan
    /\ binary_matrix = << <<0, 0>>, <<0, 0>> >>
    /\ last_op = "convert_instructions_to_gcode"
    /\ gcode_commands = <<G90Line>>


-----------------------------------------------------------------------------
(* Claims about the thresholding and the colour flip *)

Negation(matrix) ==
    [r \in 1..Len(matrix) |-> [c \in 1..Len(matrix[r]) |-> 1 - matrix[r][c]]]

(* C13: the binary matrix is the strict comparison of every sample with the
   threshold, cell = (intensity < threshold); the threshold is 128 in the
   extractor and by default in prepare_engraving_matrix, so that 127 is on
   and 128 is off. *)
C13_StrictThreshold ==
    threshold_source # "none" =>
        /\ Len(thresholded) = Len(grayscale_matrix)
        /\ \A r \in 1..Len(grayscale_matrix) :
               /\ Len(thresholded[r]) = Len(grayscale_matrix[r])
               /\ \A c \in 1..Len(grayscale_matrix[r]) :
                      (thresholded[r][c] = 1) <=> (grayscale_matrix[r][c] < threshold_used)
        /\ threshold_source \in {"generate_instructions_from_image",
                                 "prepare_engraving_matrix default"} =>
               /\ threshold_used = 128
               /\ \A r \in 1..Len(grayscale_matrix) :
                      \A c \in 1..Len(grayscale_matrix[r]) :
                          /\ grayscale_matrix[r][c] = 127 => thresholded[r][c] = 1
                          /\ grayscale_matrix[r][c] = 128 => thresholded[r][c] = 0

(* the extractor thresholded an image that holds 127 next to 128 *)
C13_Witness ==
    /\ threshold_source = "generate_instructions_from_image"
    /\ grayscale_matrix = << <<127, 128>> >>
    /\ thresholded = << <<1, 0>> >>

(* C14: with the flip toggle on, the matrix thresholded from the exported
   image is the cell-wise negation of the matrix the same samples give with
   the toggle off, on the PostScript path and on the fallback path. *)
C14_FlipIsNegation ==
    (threshold_source = "generate_instructions_from_image"
         /\ grayscale_matrix = export_image) =>
        thresholded = IF export_flipped
                      THEN Negation(ThresholdMatrix(samples, ExtractorThreshold))
                      ELSE ThresholdMatrix(samples, ExtractorThreshold)

(* a flipped export of the PostScript path was thresholded *)
C14_Witness ==
    /\ threshold_source = "generate_instructions_from_image"
    /\ grayscale_matrix = export_image
    /\ export_flipped
    /\ export_method = "postscript"
    /\ samples = << <<127, 128>> >>
    /\ thresholded = << <<0, 1>> >>

(* a flipped export of the fallback path was thresholded *)
C14_WitnessFallback ==
    /\ threshold_source = "generate_instructions_from_image"
    /\ grayscale_matrix = export_image
    /\ export_flipped
    /\ export_method = "fallback"
    /\ samples = << <<0, 255>> >>
    /\ thresholded = << <<0, 1>> >>


-----------------------------------------------------------------------------
(* Claims about the origin in pixels *)

(* generate_gcode converted the origin of the scene in the last operation *)
OriginConverted ==
    /\ last_op = "generate_gcode"
    /\ dialog = "none"
    /\ scene_find_origin_point # NoOrigin

(* C15: the origin in pixels is the origin in mm divided by the pixel size
   and rounded to the nearest pixel, so that the pixel times the pixel size
   is within half a pixel of the coordinate in mm, for the column and for the
   row. *)
C15_OriginRoundedToNearest ==
    OriginConverted =>
        \A k \in 1..2 :
            2 * Abs(origin_pixels[k] * PixelSizeMicron - scene_find_origin_point[k])
                <= PixelSizeMicron


-----------------------------------------------------------------------------
(* Claims about the power and speed settings *)

(* the stream a generator with its initial settings returns for the last
   request's arguments *)
FreshCommands ==
    LET power == IF profile_settings = NoSettings THEN DefaultLaserPower
                 ELSE PowerFromPercent(profile_settings[1])
        speed == IF profile_settings = NoSettings THEN DefaultTravelSpeed
                 ELSE profile_settings[2]
    IN  convert_instructions_to_gcode(
            generate_instructions_from_image(binary_matrix, power, speed),
            origin_pixels, Height(binary_matrix))

(* C16: a generation request returns the stream its matrix, origin and
   power/speed arguments determine, whatever requests were made before it: a
   request without profile settings is not affected by the power and speed
   of an earlier request. *)
C16_RunIsPureFunction ==
    (last_op = "generate_gcode" /\ dialog = "none" /\ instructions # <<>>) =>
        gcode_commands = FreshCommands

(* C17: when the image cannot be opened or decoded the failure reaches the
   caller of the pipeline as an exception, and no instruction stream is
   returned. *)
C17_FailurePropagated ==
    (last_op = "generate_gcode" /\ dialog = "Image Processing Error") =>
        /\ raised # "none"
        /\ instructions = <<>>
        /\ gcode_commands = <<>>

(* a request with profile settings whose stream was assembled *)
ProfileRequestAssembled ==
    /\ last_op = "generate_gcode"
    /\ dialog = "none"
    /\ profile_settings # NoSettings
    /\ instructions # <<>>

(* C19: for a profile of p percent (1..100) and v mm/min (0..6000) the S word
   of every G1 line is floor(p * 255 / 100), which lies in 0..255, is not
   below the value of any smaller percentage and is 255 for p = 100, and the
   F word of every engraving move is v. *)
C19_PowerAndFeedWords ==
    ProfileRequestAssembled =>
        LET p == profile_settings[1]
            v == profile_settings[2]
        IN  /\ p \in 1..100 /\ v \in 0..6000
            /\ \A k \in 1..Len(gcode_commands) :
                   IsG1(gcode_commands[k]) =>
                       LET s_word == WordAt(gcode_commands[k], "S").val
                       IN  /\ s_word * 100 <= p * 255
                           /\ (s_word + 1) * 100 > p * 255
                           /\ s_word \in 0..255
                           /\ p = 100 => s_word = 255
                           /\ \A q \in 1..p : (q * 255) \div 100 <= s_word
            /\ \A k \in 1..NumRuns : WordAt(EngraveOf(k), "F").val = v

(* the stream of a profile whose power does not divide evenly: 37 percent is
   94.35, emitted as S94, at the lowest speed *)
C19_Witness ==
    /\ ProfileRequestAssembled
    /\ profile_settings = <<37, 0>>
    /\ NumRuns = 3
    /\ RenderLine(EngraveOf(1)) = "G1 X0.072 Y0.000 F0 S94"


-----------------------------------------------------------------------------
(* Claims about the second extraction function *)

OptimizedRan ==
    /\ last_op = "generate_instructions_from_image_optimized_v1"
    /\ dialog = "none"

(* C20: for every matrix and every setting of laser power and travel speed,
   generate_instructions_from_image_optimized_v1 returns exactly the list of
   per-row instruction lists that generate_instructions_from_image returns. *)
C20_OptimizedEqualsPlain ==
    OptimizedRan =>
        instructions =
            generate_instructions_from_image(binary_matrix, laser_power, travel_speed)

(* the second function ran on a raster with two runs in a row, with the
   settings of a profile *)
C20_Witness ==
    /\ OptimizedRan
    /\ binary_matrix = TwoRunMatrix
    /\ laser_power = 127
    /\ travel_speed = 3000
    /\ Len(instructions) = 2
    /\ Len(instructions[1]) = 2


-----------------------------------------------------------------------------
(* Claims about ImageProcessor.generate_engraving_gcode *)

EngraveRan == gcode_lines # <<>>

(* the positions of the blank lines: the header's, then one after each row *)
BlankPositions == { k \in 1..Len(gcode_lines) : gcode_lines[k] = <<"">> }

(* the lines emitted for row r (from 0): those between the blank line that
   ends the row before it and the blank line that ends it *)
RowLines(r) ==
    LET before == CHOOSE k \in BlankPositions :
                      Cardinality({ j \in BlankPositions : j < k }) = r
        after == CHOOSE k \in BlankPositions :
                      Cardinality({ j \in BlankPositions : j < k }) = r + 1
    IN  SubSeq(gcode_lines, before + 1, after - 1)

(* the place of column c in the scan of row r: even rows run left to right,
   odd rows right to left *)
ScanPlace(r, c) == IF r % 2 = 0 THEN c ELSE Width(binary_matrix) - 1 - c

(* the lines of one maximal run (start, end exclusive) of row r in the scanned
   direction: G0 to its first cell in scan order, M3, G1 to each further cell
   in scan order, M5 *)
ExpectedRunLines(r, run, settings) ==
    LET length == run[2] - run[1]
        first == IF r % 2 = 0 THEN run[1] ELSE run[2] - 1
        step == IF r % 2 = 0 THEN 1 ELSE -1
        y_pos == r * PixelSizeMicron
    IN  [k \in 1..(length + 2) |->
            IF k = 1 THEN <<"G0", first * PixelSizeMicron, y_pos, settings[3]>>
            ELSE IF k = 2 THEN <<"M3", settings[2]>>
            ELSE IF k = length + 2 THEN <<"M5">>
            ELSE <<"G1", (first + (k - 2) * step) * PixelSizeMicron, y_pos,
                   settings[1]>>]

(* the expected lines of the runs of the set, taken in the order of the scan *)
RECURSIVE ExpectedRowLines(_, _, _)
ExpectedRowLines(r, runs, settings) ==
    IF runs = {} THEN <<>>
    ELSE LET next == CHOOSE run \in runs :
                         \A other \in runs :
                             ScanPlace(r, run[1]) <= ScanPlace(r, other[1])
         IN  ExpectedRunLines(r, next, settings)
                 \o ExpectedRowLines(r, runs \ {next}, settings)

(* C21: rows are scanned alternately, even rows left to right and odd rows
   right to left, and every maximal run is emitted in the scanned direction:
   G0 to the run's first cell in scan order (the rightmost on odd rows), M3,
   G1 to each remaining cell in scan order, and M5 before any move outside
   the run and before the next row. *)
C21_RunsInScannedDirection ==
    EngraveRan =>
        /\ Cardinality(BlankPositions) = Height(binary_matrix) + 1
        /\ \E settings \in EngraveSettings :
               \A r \in RowIndices :
                   RowLines(r) = ExpectedRowLines(r, MaximalRuns(r), settings)

(* an odd row with a run of three cells that does not start at the left
   edge was engraved: the G0 goes to its rightmost cell *)
C21_Witness ==
    /\ EngraveRan
    /\ binary_matrix = ScenarioMatrix
    /\ RowLines(1) = << <<"G0", 216, 72, 3000>>, <<"M3", 255>>,
                        <<"G1", 144, 72, 1000>>, <<"G1", 72, 72, 1000>>,
                        <<"M5">> >>

-----------------------------------------------------------------------------
(* Claims about the preview hand-over *)

(* C22: whenever generate_gcode runs with an origin placed and a raster that
   holds at least one run, it completes by opening the preview: no error is
   raised, and the generator's current command list, the one 'Send to Laser'
   streams, is the list convert_instructions_to_gcode returned. *)
C22_PreviewHoldsAssembledList ==
    (last_op = "generate_gcode" /\ dialog = "none" /\ instructions # <<>>) =>
        /\ raised = "none"
        /\ current_gcode_commands = gcode_commands

-----------------------------------------------------------------------------
(* Claims about undo and the layers *)

(* the positions of the objects that do not carry the operation id *)
PositionsWithout(operation_id) ==
    { k \in 1..Len(drawing_objects) :
          drawing_objects[k].operation_id # operation_id }

(* the n-th smallest element of a set of positions *)
NthPosition(positions, n) ==
    CHOOSE k \in positions : Cardinality({ j \in positions : j <= k }) = n

(* the step pops the id on top of the stack and removes the objects carrying
   it, and only them: the objects left are the others, in their order *)
UndoEffect ==
    IF undo_stack = <<>>
    THEN drawing_objects' = drawing_objects /\ undo_stack' = undo_stack
    ELSE LET top == undo_stack[Len(undo_stack)]
             others == PositionsWithout(top)
         IN  /\ undo_stack' \o <<top>> = undo_stack
             /\ Len(drawing_objects') = Cardinality(others)
             /\ \A n \in 1..Cardinality(others) :
                    drawing_objects'[n] = drawing_objects[NthPosition(others, n)]

(* C23: undo_last_operation with a non-empty undo stack pops exactly the most
   recently pushed operation id and removes exactly the objects carrying it,
   leaving every other object and their relative order unchanged; with an
   empty stack it leaves the objects and the stack unchanged. *)
C23_UndoRemovesLastOperation == [][undo_last_operation => UndoEffect]_vars

(* a line with its two reference points was drawn and the last of the three
   operations undone: the line and the first reference point are left, with
   the ids 1 and 2 on the stack *)
C23_Witness ==
    /\ object_counter = 3
    /\ undo_stack = <<1, 2>>
    /\ Len(drawing_objects) = 2
    /\ drawing_objects[1].type = "line"
    /\ drawing_objects[2].type = "reference_point"

-----------------------------------------------------------------------------
(* Claims about GRBLController *)

(* C24: a successful connect() writes the wake-up sequence to the serial port
   before it marks the controller connected, starts status monitoring and
   returns True. *)
C24_WakeUpWrittenOnConnect ==
    connect_result = "True" =>
        /\ \E k \in 1..Len(grbl_written) : grbl_written[k] = WakeUp
        /\ \E m \in 1..MaxMonitors : monitor_pc[m] # "off"

(* the answers to the streamed commands: ok or an error *)
CommandResponses == {OkResponse, ErrorResponse}

(* C30: while send_gcode_file streams next to the status-monitoring thread,
   every answer of the controller to a streamed command is read by the
   worker thread's _wait_for_ok, never by the monitoring thread. *)
C30_AnswersReadByStreamer ==
    \A k \in 1..Len(read_log) :
        read_log[k][2] \in CommandResponses => read_log[k][1] = "send_file"

-----------------------------------------------------------------------------
(* Claims about the coordinates of the moves *)

(* the image heights the transform is tried with *)
HeightsTried == 1..(MaxRows + 2)

(* C25: for every run (start, end, row), origin pixel (ox, oy) and image
   height H the positioning move goes to ((start - ox) * scale,
   (oy - row) * scale) and the engraving move to ((end - ox) * scale,
   (oy - row) * scale): the lines do not depend on H, both moves of a run
   have the same Y, and the engraved length is (end - start) * scale. *)
C25_MovesRelativeToOrigin ==
    AssemblerReturned =>
        \A k \in 1..NumRuns :
            LET run == Runs[k]
                position == PositionOf(k)
                engrave == EngraveOf(k)
            IN  /\ WordAt(position, "X").val
                       = (RunStart(run) - origin_pixels[1]) * PixelSizeMicron
                /\ WordAt(position, "Y").val
                       = (origin_pixels[2] - RunRow(run)) * PixelSizeMicron
                /\ WordAt(engrave, "X").val
                       = (RunEnd(run) - origin_pixels[1]) * PixelSizeMicron
                /\ WordAt(engrave, "Y").val = WordAt(position, "Y").val
                /\ WordAt(engrave, "X").val - WordAt(position, "X").val
                       = (RunEnd(run) - RunStart(run)) * PixelSizeMicron
                /\ \A H \in HeightsTried :
                       ConvertInstruction(run, origin_pixels, H)
                           = <<position, LaserOnOf(k), engrave, LaserOffOf(k)>>

(* a run of three cells that starts right of the origin column, on the row
   below the origin row, was assembled: its Y is one pixel below zero *)
C25_Witness ==
    /\ AssemblerReturned
    /\ \E k \in 1..NumRuns :
           /\ RunEnd(Runs[k]) - RunStart(Runs[k]) = 3
           /\ RunStart(Runs[k]) > origin_pixels[1]
           /\ RunRow(Runs[k]) > origin_pixels[2]
           /\ WordAt(PositionOf(k), "Y").val = -PixelSizeMicron
           /\ WordAt(EngraveOf(k), "X").val
                  - WordAt(PositionOf(k), "X").val = 3 * PixelSizeMicron

-----------------------------------------------------------------------------
(* Claims about the end of the streaming *)

(* the positions of the laser commands written to the port *)
LaserWrites == { k \in 1..Len(ser_written) : ser_written[k] \in {"M3\n", "M5\n"} }

(* C26: however the streaming of _g2mark_send_gcode ends (every command
   sent, cancelled, or aborted by an exception at any command), the last
   laser command written to the port is M5: the stream never ends with the
   laser left on after an M3. *)
C26_LastLaserCommandIsOff ==
    (pc = "done" /\ LaserWrites # {}) =>
        ser_written[CHOOSE k \in LaserWrites : \A j \in LaserWrites : j <= k]
            = "M5\n"

-----------------------------------------------------------------------------
(* Claims about the invariants of the scene *)

(* C27: after any sequence of drawing, origin placement, undo, clear_canvas
   and layer deletion, every operation id on the undo stack is carried by at
   least one drawing object and the ids on the stack are pairwise distinct,
   so that every undo on a non-empty stack removes at least one object. *)
C27_UndoStackIdsAreCarried ==
    /\ \A k \in 1..Len(undo_stack) :
           \E j \in 1..Len(drawing_objects) :
               drawing_objects[j].operation_id = undo_stack[k]
    /\ \A k, j \in 1..Len(undo_stack) : undo_stack[k] = undo_stack[j] => k = j

(* C28: after any sequence of add-layer, set-active-layer, delete-layer
   (confirmed or declined), draw and undo operations the layer list is not
   empty, the layer ids are pairwise distinct, active_layer_id is the id of
   an existing layer, and every drawing object's layer_id is the id of an
   existing layer. *)
C28_LayersConsistent ==
    /\ layers # <<>>
    /\ \A k, j \in 1..Len(layers) : layers[k] = layers[j] => k = j
    /\ active_layer_id \in LayerIds
    /\ \A k \in 1..Len(drawing_objects) : drawing_objects[k].layer_id \in LayerIds

(* the first layer was deleted, an object is left on the second layer, and
   the undo stack holds an operation id that no object carries *)
C28_Witness ==
    /\ layers = <<2>>
    /\ active_layer_id = 2
    /\ drawing_objects # <<>>
    /\ \E k \in 1..Len(undo_stack) :
           \A j \in 1..Len(drawing_objects) :
               drawing_objects[j].operation_id # undo_stack[k]

-----------------------------------------------------------------------------
(* Claims about the export of the scene *)

(* C29: objects of type origin and reference_point never contribute to the
   exported image that is turned into instructions: the PostScript export
   hides their canvas items and the fallback does not draw them, for every
   scene and every state of the canvas. *)
C29_MarkersNotExported ==
    exported.method # "none" =>
        exported.depicted \cap {"origin", "reference_point"} = {}

(* the canvas shows a line, its redrawn reference points and the origin
   marker, and the PostScript export rendered the line alone *)
C29_Witness ==
    /\ exported = [method |-> "postscript", depicted |-> {"line"}]
    /\ \E k \in 1..Len(canvas_items) :
           /\ canvas_items[k].depicts = "reference_point"
           /\ "temp" \notin canvas_items[k].tags
    /\ \E k \in 1..Len(canvas_items) :
           /\ canvas_items[k].depicts = "origin"
           /\ "temp" \notin canvas_items[k].tags

====
